---------------------------- MODULE Spec2Model ----------------------------
(***************************************************************************)
(* Model of the BitAxe status bot core: the durable best-difficulty store  *)
(* (src/src/status_overview.py) and the TTL status cache                   *)
(* (src/src/device_status.py).                                             *)
(*                                                                         *)
(* Python strings are modelled as sequences of one-character strings, so   *)
(* that lower(), upper(), replace(), float() and the ":," format are       *)
(* computed character by character as the code computes them.              *)
(***************************************************************************)
EXTENDS Integers, Sequences, FiniteSets, TLC

(***************************************************************************)
(* Bounds of the model.                                                    *)
(***************************************************************************)
\* The logical clock of the store specification runs from 0 to MaxNow.
MaxNow == 1

(***************************************************************************)
(* Python str primitives.                                                  *)
(***************************************************************************)
Uppers == <<"A","B","C","D","E","F","G","H","I","J","K","L","M",
            "N","O","P","Q","R","S","T","U","V","W","X","Y","Z">>

Lowers == <<"a","b","c","d","e","f","g","h","i","j","k","l","m",
            "n","o","p","q","r","s","t","u","v","w","x","y","z">>

Digits == <<"0","1","2","3","4","5","6","7","8","9">>

IsDigit(c) == \E i \in 1..10 : Digits[i] = c

DigitVal(c) == (CHOOSE i \in 1..10 : Digits[i] = c) - 1

lower_char(c) ==
    IF \E i \in 1..26 : Uppers[i] = c
    THEN Lowers[CHOOSE i \in 1..26 : Uppers[i] = c]
    ELSE c

upper_char(c) ==
    IF \E i \in 1..26 : Lowers[i] = c
    THEN Uppers[CHOOSE i \in 1..26 : Lowers[i] = c]
    ELSE c

\* str.lower()
str_lower(s) == [i \in 1..Len(s) |-> lower_char(s[i])]

\* str.upper()
str_upper(s) == [i \in 1..Len(s) |-> upper_char(s[i])]

\* str.replace(old, new) for a one-character old and any new
RECURSIVE str_replace(_, _, _)
str_replace(s, old, new) ==
    IF s = <<>> THEN <<>>
    ELSE (IF Head(s) = old THEN new ELSE <<Head(s)>>)
         \o str_replace(Tail(s), old, new)

\* str.strip(): leading and trailing blanks removed
RECURSIVE str_lstrip(_)
str_lstrip(s) ==
    IF s # <<>> /\ Head(s) = " " THEN str_lstrip(Tail(s)) ELSE s

RECURSIVE str_rstrip(_)
str_rstrip(s) ==
    IF s # <<>> /\ s[Len(s)] = " "
    THEN str_rstrip(SubSeq(s, 1, Len(s) - 1))
    ELSE s

str_strip(s) == str_rstrip(str_lstrip(s))

\* "c in s"
str_contains(s, c) == \E i \in 1..Len(s) : s[i] = c

\* index of the first occurrence of c in s, 0 when there is none
str_find(s, c) ==
    IF str_contains(s, c)
    THEN CHOOSE i \in 1..Len(s) : s[i] = c /\ \A j \in 1..(i - 1) : s[j] # c
    ELSE 0

AllDigits(s) == \A i \in 1..Len(s) : IsDigit(s[i])

RECURSIVE DigitsToNat(_)
DigitsToNat(s) ==
    IF s = <<>> THEN 0
    ELSE 10 * DigitsToNat(SubSeq(s, 1, Len(s) - 1)) + DigitVal(s[Len(s)])

RECURSIVE Pow10(_)
Pow10(n) == IF n <= 0 THEN 1 ELSE 10 * Pow10(n - 1)

(***************************************************************************)
(* Python float(str) and int(float).  A float is kept as an exact decimal  *)
(* [neg, digits, scale] meaning (-1)^neg * digits * 10^scale, or as inf or *)
(* nan.  Accepted syntax: [sign] (inf | infinity | nan |                   *)
(* digits[.digits][e[sign]digits] | .digits[e[sign]digits]), any case,     *)
(* surrounding blanks ignored; anything else is a ValueError.              *)
(***************************************************************************)
S_inf == <<"i","n","f">>

S_infinity == <<"i","n","f","i","n","i","t","y">>

S_nan == <<"n","a","n">>

ValueErr == [kind |-> "ValueError"]

\* the exponent part after the "e": [sign] digits
ParseExponent(s) ==
    LET signed == s # <<>> /\ s[1] \in {"+", "-"}
        ds == IF signed THEN Tail(s) ELSE s
    IN IF ds = <<>> \/ ~AllDigits(ds) THEN ValueErr
       ELSE [kind |-> "exp",
             val |-> IF signed /\ s[1] = "-" THEN 0 - DigitsToNat(ds)
                     ELSE DigitsToNat(ds)]

\* digits[.digits] with at least one digit
ParseMantissa(s) ==
    LET dot == str_find(s, ".")
        ip == IF dot = 0 THEN s ELSE SubSeq(s, 1, dot - 1)
        fp == IF dot = 0 THEN <<>> ELSE SubSeq(s, dot + 1, Len(s))
    IN IF ip \o fp = <<>> \/ ~AllDigits(ip) \/ ~AllDigits(fp) THEN ValueErr
       ELSE [kind |-> "mant", digits |-> DigitsToNat(ip \o fp), frac |-> Len(fp)]

py_float(str) ==
    LET t == str_lower(str_strip(str))
        signed == t # <<>> /\ t[1] \in {"+", "-"}
        neg == signed /\ t[1] = "-"
        body == IF signed THEN Tail(t) ELSE t
        epos == str_find(body, "e")
        mpart == IF epos = 0 THEN body ELSE SubSeq(body, 1, epos - 1)
        m == ParseMantissa(mpart)
        e == IF epos = 0 THEN [kind |-> "exp", val |-> 0]
             ELSE ParseExponent(SubSeq(body, epos + 1, Len(body)))
    IN IF body \in {S_inf, S_infinity} THEN [kind |-> "inf", neg |-> neg]
       ELSE IF body = S_nan THEN [kind |-> "nan"]
       ELSE IF m.kind = "ValueError" \/ e.kind = "ValueError" THEN ValueErr
       ELSE [kind |-> "num", neg |-> neg, digits |-> m.digits,
             scale |-> e.val - m.frac]

\* float * 1eN
float_mul_pow10(f, n) ==
    IF f.kind = "num" THEN [f EXCEPT !.scale = f.scale + n] ELSE f

\* int(float(..)): truncation towards zero; OverflowError on an infinity,
\* ValueError on a nan; a ValueError raised by float() propagates
py_int(f) ==
    IF f.kind = "inf" THEN [kind |-> "OverflowError"]
    ELSE IF f.kind \in {"nan", "ValueError"} THEN ValueErr
    ELSE LET mag == IF f.scale >= 0 THEN f.digits * Pow10(f.scale)
                    ELSE f.digits \div Pow10(0 - f.scale)
         IN [kind |-> "int", val |-> IF f.neg THEN 0 - mag ELSE mag]

(***************************************************************************)
(* f"{n:,}": decimal digits grouped in threes by commas.                   *)
(***************************************************************************)
RECURSIVE NatToStr(_)
NatToStr(n) ==
    IF n < 10 THEN <<Digits[n + 1]>>
    ELSE NatToStr(n \div 10) \o <<Digits[(n % 10) + 1]>>

RECURSIVE GroupThousands(_)
GroupThousands(ds) ==
    IF Len(ds) <= 3 THEN ds
    ELSE GroupThousands(SubSeq(ds, 1, Len(ds) - 3))
         \o <<",">> \o SubSeq(ds, Len(ds) - 2, Len(ds))

format_thousands(n) ==
    IF n < 0 THEN <<"-">> \o GroupThousands(NatToStr(0 - n))
    ELSE GroupThousands(NatToStr(n))

(***************************************************************************)
(* Python values: None, and dicts as functions from key strings.           *)
(***************************************************************************)
None == [none |-> TRUE]

EmptyDict == [k \in {} |-> 0]

\* d.get(key, default)
dict_get(d, key, default) == IF key \in DOMAIN d THEN d[key] ELSE default

(***************************************************************************)
(* json.dump / json.load of the best-difficulty object.  The file text is  *)
(* the sequence of tokens json.dump emits: the opening brace, one          *)
(* <<key, value>> member per key in insertion order, the closing brace.    *)
(* A text cut short by a failed write is not a JSON document.              *)
(***************************************************************************)
BestKeys == <<"value", "short", "hostname", "timestamp">>

json_dump(d, keys) ==
    <<<<"{">>>> \o [i \in 1..Len(keys) |-> <<keys[i], d[keys[i]]>>] \o <<<<"}">>>>

json_load(text) ==
    LET n == Len(text)
        wellformed == /\ n >= 2
                      /\ text[1] = <<"{">>
                      /\ text[n] = <<"}">>
                      /\ \A i \in 2..(n - 1) : Len(text[i]) = 2
        keys == {text[i][1] : i \in 2..(n - 1)}
    IN IF ~wellformed THEN [kind |-> "JSONDecodeError"]
       ELSE [kind |-> "ok",
             obj |-> [k \in keys |->
                        text[CHOOSE i \in 2..(n - 1) : text[i][1] = k][2]]]

(***************************************************************************)
(* The best-difficulty store (status_overview.py).                         *)
(*   best_diff_history : the module global, [] at import, later the dict   *)
(*                       json.load returned or {} after a failed load      *)
(*   best_diff_file    : BEST_DIFF_FILE on disk                            *)
(*   now               : the clock read by datetime.utcnow()/now()         *)
(* History variables, not program state:                                   *)
(*   last     : the most recent operation on the store: its input, the     *)
(*              magnitude of the record load_best_diff gave it (observed), *)
(*              and what it returned or raised                             *)
(*   written  : the record of the latest completed write, and the largest  *)
(*              value any completed write (or the initial file) held       *)
(*   io_fault : an I/O error has occurred on the file                      *)
(***************************************************************************)
VARIABLES best_diff_history, best_diff_file, now, last, written, io_fault

\* cycle: the position of format_status_embeds() (lines 255-300) and its
\* locals: data, the host names still to visit in the loop of line 278, and,
\* as history, the statuses the loop handed to check_and_update_best_diff
VARIABLES cycle

cycle_vars == <<cycle>>

IdleCycle == [pc |-> "idle", data |-> <<>>, todo |-> <<>>, evaluated |-> <<>>]

\* fetch: one call of fetch_status(ip) (device_status.py 21-47): its position,
\* the seconds since the request was made, the number of requests made, and
\* how the call ended (the dict returned, or the exception raised past it)
VARIABLES fetch

fetch_vars == <<fetch>>

\* applied: the last call of unify_status or get_value with its arguments and
\* what it returned
VARIABLES applied

applied_vars == <<applied>>

NotApplied == [op |-> "none"]

\* gather: the fetch_status tasks one get_all_device_statuses call hands to
\* asyncio.gather (device_status.py 77-81), each with its position and the
\* seconds it has been waiting
VARIABLES gather

IdleGather == [pc |-> "idle", tasks |-> <<>>]

\* alerts: the wall clock in minutes, alert_cooldowns (main.py line 85), the
\* _offline_count check_and_send_alerts leaves in each cached status, and
\* what was alerted
\* bot: the state of main.py's event handlers and of the update_status loop
\* update: the position of one run of update_status() (main.py 207-277), its
\* locals, the globals last_message and last_update_time, and a record of
\* what the run did
VARIABLES alerts, bot, update

rest_vars == <<gather, alerts, bot, update>>

NoException == [class |-> "none", msg |-> ""]

IdleFetch ==
    [pc |-> "idle", ip |-> "", elapsed |-> 0, attempts |-> 0,
     failure |-> NoException, result |-> None, raised |-> NoException]

store_vars == <<best_diff_history, best_diff_file, now, last, written, io_fault>>

\* best_diff_history = []  (status_overview.py line 44)
EmptyList == [type |-> "list", d |-> EmptyDict]

PyDict(d) == [type |-> "dict", d |-> d]

\* Python truthiness of a list or dict: "not x" holds for [] and {}
Falsy(x) == DOMAIN x.d = {}

NoFile == [exists |-> FALSE, text |-> <<>>]

\* Host names of the configured devices
Hostnames == {"bitaxe", "nerdaxe"}

\* Difficulty strings a device may report in bestDiff
D_empty == <<>>

D_dash == <<"-">>

D_word == <<"n", "/", "a">>

D_inf == <<"i", "n", "f">>

D_zero == <<"0">>

D_500K == <<"5", "0", "0", "K">>

D_900K == <<"9", "0", "0", "K">>

D_1_5M == <<"1", ".", "5", "M">>

D_2_1M == <<"2", ".", "1", "M">>

DiffStrings == {D_empty, D_dash, D_word, D_inf, D_zero, D_900K, D_1_5M, D_2_1M}

D_500 == <<"5", "0", "0">>

D_2G == <<"2", "G">>

D_0_5M == <<"0", ".", "5", "M">>

D_1_5m == <<"1", ".", "5", "m">>

D_900k == <<"9", "0", "0", "k">>

D_2g == <<"2", "g">>

D_1_5 == <<"1", ".", "5">>

D_1_2345K == <<"1", ".", "2", "3", "4", "5", "K">>

\* Difficulty strings the parser is applied to: the reported ones, the same
\* magnitudes under another suffix or letter case, and fractional values
ParseStrings ==
    DiffStrings \cup {D_500K, D_500, D_2G, D_0_5M, D_1_5m, D_900k, D_2g,
                      D_1_5, D_1_2345K}

Statuses == [bestDiff : DiffStrings, hostname : Hostnames]

\* datetime.utcnow().isoformat(): the clock reading as text
isoformat(t) == <<"T">> \o NatToStr(t)

\* Outcomes of open(BEST_DIFF_FILE, "w") + json.dump: the write completes,
\* open() raises IOError (file untouched), or the write raises IOError after
\* open() truncated the file and "cut" tokens reached the disk
WriteOutcomes ==
    {[kind |-> "ok", cut |-> 0], [kind |-> "open_error", cut |-> 0]}
    \cup {[kind |-> "write_error", cut |-> c] : c \in {0, 1}}

\* a load that opens the file at every call
reads_file_always(mem, file) == file.exists

\* load_best_diff() opens the file (lines 147-148): nothing is in memory and
\* the file exists
reads_file(mem, file) == Falsy(mem) /\ file.exists

\* load_best_diff(): the value of best_diff_history after the call, which is
\* also the value returned
load_best_diff(mem, file, read_error) ==
    IF reads_file(mem, file)
    THEN IF read_error THEN PyDict(EmptyDict)
         ELSE LET r == json_load(file.text)
              IN IF r.kind = "ok" THEN PyDict(r.obj) ELSE PyDict(EmptyDict)
    ELSE mem

\* the dict save_best_diff builds (lines 186-198)
best_record(value, best_diff, hostname, t) ==
    LET best_diff_str == str_upper(best_diff)
        suffix == IF best_diff_str # <<>>
                     /\ best_diff_str[Len(best_diff_str)] \in {"G", "M", "K"}
                  THEN best_diff_str[Len(best_diff_str)]
                  ELSE "G"
    IN [value |-> value, short |-> suffix, hostname |-> hostname,
        timestamp |-> isoformat(t)]

\* save_best_diff(): the file after the call (lines 200-206); IOError is
\* caught and logged
save_best_diff(file, value, best_diff, hostname, t, outcome) ==
    LET text == json_dump(best_record(value, best_diff, hostname, t), BestKeys)
    IN CASE outcome.kind = "ok" -> [exists |-> TRUE, text |-> text]
         [] outcome.kind = "open_error" -> file
         [] outcome.kind = "write_error" ->
                [exists |-> TRUE, text |-> SubSeq(text, 1, outcome.cut)]

\* format_best_diff() (lines 214-233); any exception returns str(best_diff)
format_best_diff(best_diff) ==
    LET best_diff_str == str_upper(str_strip(best_diff))
        unit == IF str_contains(best_diff_str, "G") THEN "G"
                ELSE IF str_contains(best_diff_str, "M") THEN "M"
                ELSE IF str_contains(best_diff_str, "K") THEN "K"
                ELSE ""
        exp == CASE unit = "G" -> 9 [] unit = "M" -> 6 [] unit = "K" -> 3
                 [] OTHER -> 0
        num == IF unit = "" THEN best_diff_str
               ELSE str_strip(str_replace(best_diff_str, unit, <<>>))
        value == py_int(float_mul_pow10(py_float(num), exp))
    IN IF value.kind # "int" THEN best_diff
       ELSE IF unit = "" THEN format_thousands(value.val)
       ELSE format_thousands(value.val) \o <<" ", "(", unit, ")">>

\* a parser that does not fold the letter case
parse_best_diff_case_sensitive(best_diff_str) ==
    py_int(py_float(
        str_replace(str_replace(str_replace(best_diff_str,
            "g", <<"e", "9">>), "m", <<"e", "6">>), "k", <<"e", "3">>)))

\* int(float(val_str)) of lines 172-173
parse_best_diff(best_diff_str) ==
    py_int(py_float(
        str_replace(str_replace(str_replace(str_lower(best_diff_str),
            "g", <<"e", "9">>), "m", <<"e", "6">>), "k", <<"e", "3">>)))

\* parse_best_diff and format_best_diff over the difficulty strings,
\* evaluated once
ParsedDiff == [s \in ParseStrings |-> parse_best_diff(s)]

FormattedDiff == [s \in ParseStrings |-> format_best_diff(s)]

\* the condition of line 175
is_new_record(current_best, numeric_val) ==
    Falsy(current_best) \/ numeric_val > dict_get(current_best.d, "value", 0)

\* check_and_update_best_diff(status): what the call returns or raises,
\* whether it called save_best_diff, and the file afterwards
check_and_update_best_diff(current_best, file, status, t, outcome) ==
    LET best_diff_str == status.bestDiff
        numeric == ParsedDiff[best_diff_str]
        unchanged == [raised |-> "none", new_record |-> FALSE,
                      new_record_value |-> None, saved |-> FALSE, file |-> file]
    IN IF best_diff_str = <<>> \/ best_diff_str = <<"-">> THEN unchanged
       ELSE IF numeric.kind = "ValueError" THEN unchanged
       ELSE IF numeric.kind = "OverflowError"
            THEN [unchanged EXCEPT !.raised = "OverflowError"]
       ELSE IF is_new_record(current_best, numeric.val)
            THEN [raised |-> "none", new_record |-> TRUE,
                  new_record_value |-> [str |-> FormattedDiff[status.bestDiff]],
                  saved |-> TRUE,
                  file |-> save_best_diff(file, numeric.val, status.bestDiff,
                                          status.hostname, t, outcome)]
       ELSE unchanged

(***************************************************************************)
(* JSON values of a device payload, tagged with their Python type.         *)
(***************************************************************************)
JNone == [t |-> "none", v |-> 0]

JStr(s) == [t |-> "str", v |-> s]

JNum(n) == [t |-> "num", v |-> n]

JBool(b) == [t |-> "bool", v |-> b]

JList(l) == [t |-> "list", v |-> l]

JDict(d) == [t |-> "dict", v |-> d]

\* Python truthiness of a value, as used by "x or default"
Truthy(x) ==
    CASE x.t = "none" -> FALSE
      [] x.t = "str" -> x.v # ""
      [] x.t = "num" -> x.v # 0
      [] x.t = "bool" -> x.v
      [] x.t = "list" -> x.v # <<>>
      [] x.t = "dict" -> DOMAIN x.v # {}

py_or(x, default) == IF Truthy(x) THEN x ELSE default

\* str(x) of a string or a non-negative integer, as a sequence of characters
py_str(x) == IF x.t = "num" THEN NatToStr(x.v) ELSE x.v

(***************************************************************************)
(* device_status.py: get_value, unify_status                               *)
(***************************************************************************)
\* the loop of lines 115-121: descend key by key
RECURSIVE descend(_, _)
descend(current, keys) ==
    IF keys = <<>> THEN current
    ELSE IF current.t = "dict" /\ Head(keys) \in DOMAIN current.v
         THEN descend(current.v[Head(keys)], Tail(keys))
         ELSE JNone

\* A variant without the nested-path branch of lines 114-121
get_value_alternatives_only(data, keys) ==
    IF \E i \in 1..Len(keys) : keys[i] \in DOMAIN data
    THEN data[keys[CHOOSE i \in 1..Len(keys) :
                /\ keys[i] \in DOMAIN data
                /\ \A j \in 1..(i - 1) : keys[j] \notin DOMAIN data]]
    ELSE JNone

\* get_value(data, keys), data a dict as a function from keys to values
get_value(data, keys) ==
    IF keys = <<>> THEN JNone
    ELSE IF Len(keys) > 1 /\ keys[1] \in DOMAIN data /\ data[keys[1]].t = "dict"
         THEN descend(JDict(data), keys)
         ELSE IF \E i \in 1..Len(keys) : keys[i] \in DOMAIN data
              THEN data[keys[CHOOSE i \in 1..Len(keys) :
                          /\ keys[i] \in DOMAIN data
                          /\ \A j \in 1..(i - 1) : keys[j] \notin DOMAIN data]]
              ELSE JNone

\* A variant of the dict without defaults: only the fields the payload
\* resolves
canonical_sparse(data, hostname) ==
    LET found == [hostname |-> get_value(data, <<"hostname">>),
                  ip |-> get_value(data, <<"ip", "hostip">>),
                  temp |-> get_value(data, <<"temp">>),
                  bestDiff |-> get_value(data, <<"bestDiff">>),
                  sharesRejectedReasons |-> get_value(data, <<"sharesRejectedReasons">>),
                  deviceModel |-> get_value(data, <<"deviceModel", "boardVersion">>),
                  isUsingFallbackStratum |->
                      get_value(data, <<"isUsingFallbackStratum", "stratum.usingFallback">>),
                  stratum_poolMode |-> get_value(data, <<"stratum", "poolMode">>)]
    IN  [f \in {g \in DOMAIN found : Truthy(found[g])} |-> found[f]]

\* The dict of lines 148-260.  A difficulty string is a sequence of
\* characters, as the store parses it.  Of the canonical fields the model
\* keeps one of each shape: a field with the host name as default, a string,
\* a number, a boolean and a list default, fields with two alternative keys,
\* and a field read through a nested path.
canonical(data, hostname) ==
    [hostname |-> py_or(get_value(data, <<"hostname">>), JStr(hostname)),
     ip |-> py_or(get_value(data, <<"ip", "hostip">>), JStr("N/A")),
     temp |-> py_or(get_value(data, <<"temp">>), JNum(0)),
     bestDiff |-> py_or(get_value(data, <<"bestDiff">>), JStr(D_dash)),
     sharesRejectedReasons |->
         py_or(get_value(data, <<"sharesRejectedReasons">>), JList(<<>>)),
     deviceModel |->
         py_or(get_value(data, <<"deviceModel", "boardVersion">>), JStr("Unknown")),
     isUsingFallbackStratum |->
         py_or(get_value(data, <<"isUsingFallbackStratum", "stratum.usingFallback">>),
               JBool(FALSE)),
     stratum_poolMode |->
         py_or(get_value(data, <<"stratum", "poolMode">>), JStr("-"))]

\* A variant that passes a payload through only when its error text is not
\* empty
unify_status_truthy_error(data, hostname) ==
    IF "error" \in DOMAIN data /\ Truthy(data["error"])
    THEN data
    ELSE canonical(data, hostname)

\* unify_status(data, hostname)
unify_status(data, hostname) ==
    IF "error" \in DOMAIN data THEN data ELSE canonical(data, hostname)

(***************************************************************************)
(* The status cache (device_status.py).                                    *)
(*   STATUS_CACHE : the module global, host name -> {data, timestamp}      *)
(*   calls        : the invocations of get_all_device_statuses that may    *)
(*                  overlap; each is idle, suspended in asyncio.gather, or *)
(*                  has returned.  hostnames and results are the locals of *)
(*                  lines 65 and 81.  History fields: seen (the      *)
(*                  entries younger than 5 seconds when the call began),   *)
(*                  wrote (the                                             *)
(*                  entries it wrote), disturbed (the entries another call *)
(*                  wrote while it was suspended), ret (what it returned)  *)
(***************************************************************************)
VARIABLES STATUS_CACHE, calls

cache_vars == <<STATUS_CACHE, calls>>

\* the variables of the store other than the clock
store_state == <<best_diff_history, best_diff_file, last, written, io_fault>>

\* CACHE_TTL = timedelta(seconds=5)
CACHE_TTL == 5

\* The cache clock runs from 0 to MaxTime seconds
MaxTime == 5

\* Number of get_all_device_statuses invocations that may overlap
MaxCalls == 2

Calls == 1..MaxCalls

\* get_devices(): the configured devices in file order; one has no ip
Devices ==
    <<[name |-> "bitaxe", ip |-> "10.0.0.1"],
      [name |-> "nerdaxe", ip |-> "10.0.0.2"],
      [name |-> "spare", ip |-> ""]>>

DeviceNames == {Devices[i].name : i \in 1..Len(Devices)}

\* What fetch_status(ip) returns: the decoded JSON body or an error dict
PayloadOk ==
    [hostname |-> JStr("axe"), temp |-> JNum(65), bestDiff |-> JStr(D_1_5M),
     stratum |-> JDict([poolMode |-> JStr("solo")])]

ErrTimeout == [error |-> JStr("timeout")]

FetchResults == {PayloadOk, ErrTimeout}

IdleCall ==
    [pc |-> "idle", hostnames |-> <<>>, results |-> <<>>,
     seen |-> <<>>, wrote |-> {}, disturbed |-> {}, ret |-> <<>>]

\* the cache check with the comparison turned around: only expired entries
\* are served
is_fresh_inverted(cache, hostname, t) ==
    hostname \in DOMAIN cache /\ t - cache[hostname].timestamp >= CACHE_TTL

\* the cache check without the age test: an entry, once written, is served
\* for ever
is_fresh_no_expiry(cache, hostname, t) ==
    hostname \in DOMAIN cache

\* the cache check of lines 70-74
is_fresh(cache, hostname, t) ==
    hostname \in DOMAIN cache /\ t - cache[hostname].timestamp < CACHE_TTL

\* the loop of lines 67-77: the host names to fetch, in order
RECURSIVE stale_hostnames(_, _, _)
stale_hostnames(devices, cache, t) ==
    IF devices = <<>> THEN <<>>
    ELSE (IF Head(devices).ip # "" /\ ~is_fresh(cache, Head(devices).name, t)
          THEN <<Head(devices).name>> ELSE <<>>)
         \o stale_hostnames(Tail(devices), cache, t)

\* the loop of lines 82-87 with error results left out of the cache
RECURSIVE write_results_skip_errors(_, _, _, _, _)
write_results_skip_errors(cache, hostnames, results, t, dt) ==
    IF hostnames = <<>> THEN cache
    ELSE LET entry == [data |-> unify_status(Head(results), Head(hostnames)),
                       timestamp |-> t]
             h == Head(hostnames)
         IN write_results_skip_errors(
                IF "error" \in DOMAIN Head(results) THEN cache
                ELSE [k \in DOMAIN cache \cup {h} |-> IF k = h THEN entry ELSE cache[k]],
                Tail(hostnames), Tail(results), t + dt, dt)

\* the loop of lines 82-87 with the timestamp of an entry set only when the
\* entry is created
RECURSIVE write_results_keep_timestamp(_, _, _, _, _)
write_results_keep_timestamp(cache, hostnames, results, t, dt) ==
    IF hostnames = <<>> THEN cache
    ELSE LET h == Head(hostnames)
             entry == [data |-> unify_status(Head(results), h),
                       timestamp |-> IF h \in DOMAIN cache
                                     THEN cache[h].timestamp ELSE t]
         IN write_results_keep_timestamp(
                [k \in DOMAIN cache \cup {h} |-> IF k = h THEN entry ELSE cache[k]],
                Tail(hostnames), Tail(results), t + dt, dt)

\* the loop of lines 82-87 stamping every entry with a time read before the
\* loop's own writes: one clock step early whenever the clock advances
RECURSIVE write_results_early_timestamp(_, _, _, _, _)
write_results_early_timestamp(cache, hostnames, results, t, dt) ==
    IF hostnames = <<>> THEN cache
    ELSE LET h == Head(hostnames)
             entry == [data |-> unify_status(Head(results), h), timestamp |-> t - dt]
         IN write_results_early_timestamp(
                [k \in DOMAIN cache \cup {h} |-> IF k = h THEN entry ELSE cache[k]],
                Tail(hostnames), Tail(results), t + dt, dt)

\* the loop of lines 82-87: every result unified and written with the time
\* datetime.now() of its own write; dt is the time that passes between two
\* writes
RECURSIVE write_results(_, _, _, _, _)
write_results(cache, hostnames, results, t, dt) ==
    IF hostnames = <<>> THEN cache
    ELSE LET entry == [data |-> unify_status(Head(results), Head(hostnames)),
                       timestamp |-> t]
             h == Head(hostnames)
         IN write_results(
                [k \in DOMAIN cache \cup {h} |-> IF k = h THEN entry ELSE cache[k]],
                Tail(hostnames), Tail(results), t + dt, dt)

\* the return value of line 90
all_cached(devices, cache) ==
    [name \in {devices[i].name : i \in 1..Len(devices)} \cap DOMAIN cache
        |-> cache[name].data]

SeqToSet(s) == {s[i] : i \in 1..Len(s)}

\* history: the entries of the cache that are younger than 5 seconds at time t
young_entries(cache, t) ==
    [h \in {k \in DOMAIN cache : t - cache[k].timestamp < 5} |-> cache[h]]

\* another call wrote the entries of names: calls still running note it
Disturb(cs, c, names) ==
    [k \in Calls |->
        IF k # c /\ cs[k].pc = "gather"
        THEN [cs[k] EXCEPT !.disturbed = @ \cup names]
        ELSE cs[k]]

(***************************************************************************)
(* main.py: the globals of lines 82-91 and the state of the bot.  Times    *)
(* are minutes.                                                            *)
(***************************************************************************)
\* ALERT_COOLDOWN = timedelta(minutes=15)
ALERT_COOLDOWN == 15

TEMP_CRITICAL == 75

VR_TEMP_CRITICAL == 85

OFFLINE_ALERT_THRESHOLD == 3

\* tasks.loop(seconds=get_update_interval()): the configured interval,
\* here five minutes
UPDATE_INTERVAL == 5

\* The wall clock runs from 0 to MaxClock minutes
MaxClock == 20

\* Number of status messages the channel may receive
MaxMessages == 2

\* the devices get_all_device_statuses() returns a status for
PolledNames == {Devices[i].name : i \in {j \in 1..Len(Devices) : Devices[j].ip # ""}}

\* what one run of update_status did: whether it ended (ran), whether
\* check_and_update_best_diff reported a record, whether the channel was
\* there and every request to Discord succeeded, what was done to the
\* status message (none, edit, send, or wait after a rate limit), whether
\* the record was announced, which alerts were due at its start and which
\* were delivered
NoLog ==
    [ran |-> FALSE, reported |-> FALSE, discord_ok |-> TRUE, did |-> "none",
     notified |-> FALSE, due |-> {}, delivered |-> {}]

NoAlerts ==
    [clock |-> 0, alert_cooldowns |-> EmptyDict,
     offline_count |-> [d \in PolledNames |-> -1],
     fails |-> [d \in PolledNames |-> 0],
     produced |-> EmptyDict]

\* on_ready handlers that may be suspended at once
MaxHandlers == 2

\* Number of runs of the loop that are counted
MaxCycles == 3

\* connected: the gateway connection is up.  ready: the client's ready
\* flag, which bot.wait_until_ready() waits for.  handlers: the on_ready
\* handlers suspended in change_presence (line 110).  presence: the
\* activity the bot shows.  task: the task of the update_status loop:
\* none, created, waiting in before_loop, in a run, or asleep.
\* starts: the calls of update_status.start().  skipped: an on_ready has
\* found the loop running and left it alone.  cycles: the runs begun.
NewBot ==
    [connected |-> FALSE, ready |-> FALSE, handlers |-> 0,
     presence |-> "none", task |-> "none", starts |-> 0, skipped |-> FALSE,
     cycles |-> 0]

\* last_message = None is 0, a message is its number in the channel;
\* new_record_value = None is the empty text.  last_update_time only decides
\* whether a run waits one second more (lines 230-231) and is left out.
IdleUpdate ==
    [pc |-> "idle", last_message |-> 0,
     deleted |-> FALSE, sent |-> 0, statuses |-> EmptyDict, todo |-> <<>>,
     new_record_device |-> FALSE, new_record_value |-> <<>>, log |-> NoLog]

CacheInit ==
    /\ STATUS_CACHE = <<>>
    /\ calls = [c \in Calls |-> IdleCall]
    /\ now = 0
    /\ best_diff_history = EmptyList
    /\ best_diff_file = NoFile
    /\ last = [op |-> "none"]
    /\ written = [rec |-> None, max |-> 0]
    /\ io_fault = FALSE
    /\ cycle = IdleCycle
    /\ fetch = IdleFetch
    /\ applied = NotApplied
    /\ gather = IdleGather
    /\ alerts = NoAlerts
    /\ bot = NewBot
    /\ update = IdleUpdate

\* The call of format_status_embeds (status_overview.py, line 256)
CycleCall == 1

\* The other call site of get_all_device_statuses (main.py, line 257)
OtherCall == 2

\* The return of line 90 hands the map to the awaiting caller without
\* suspending: nothing else runs between a call's return and its caller
\* taking the map.  (A cycle that has taken the map keeps the record of its
\* call until the cycle ends.)
NoReturnPending ==
    \A c \in Calls :
        calls[c].pc = "returned" => (c = CycleCall /\ cycle.pc # "idle")

\* A variant with single-flight de-duplication: a device another call is
\* fetching is not fetched again
Start_single_flight(c) ==
    /\ calls[c].pc = "idle"
    /\ NoReturnPending
    /\ LET in_flight == UNION {SeqToSet(calls[d].hostnames) :
                                 d \in {k \in Calls : calls[k].pc = "gather"}}
           hostnames == SelectSeq(stale_hostnames(Devices, STATUS_CACHE, now),
                                  LAMBDA h : h \notin in_flight)
           begun == [IdleCall EXCEPT !.seen = young_entries(STATUS_CACHE, now)]
       IN IF hostnames = <<>>
          THEN calls' = [calls EXCEPT ![c] =
                   [begun EXCEPT !.pc = "returned",
                                 !.ret = all_cached(Devices, STATUS_CACHE)]]
          ELSE calls' = [calls EXCEPT ![c] =
                   [begun EXCEPT !.pc = "gather",
                                 !.hostnames = hostnames]]
    /\ UNCHANGED <<STATUS_CACHE, now>>
    /\ UNCHANGED store_state
    /\ UNCHANGED cycle_vars
    /\ UNCHANGED fetch_vars
    /\ UNCHANGED applied_vars
    /\ UNCHANGED rest_vars

\* get_all_device_statuses() is called: lines 63-77 run; with nothing to
\* fetch the call returns at once (line 90), otherwise it suspends in
\* asyncio.gather with one fetch_status per stale device
Start(c) ==
    /\ calls[c].pc = "idle"
    /\ NoReturnPending
    /\ LET hostnames == stale_hostnames(Devices, STATUS_CACHE, now)
           begun == [IdleCall EXCEPT !.seen = young_entries(STATUS_CACHE, now)]
       IN IF hostnames = <<>>
          THEN calls' = [calls EXCEPT ![c] =
                   [begun EXCEPT !.pc = "returned",
                                 !.ret = all_cached(Devices, STATUS_CACHE)]]
          ELSE calls' = [calls EXCEPT ![c] =
                   [begun EXCEPT !.pc = "gather",
                                 !.hostnames = hostnames]]
    /\ UNCHANGED <<STATUS_CACHE, now>>
    /\ UNCHANGED store_state
    /\ UNCHANGED cycle_vars
    /\ UNCHANGED fetch_vars
    /\ UNCHANGED applied_vars
    /\ UNCHANGED rest_vars

\* asyncio.gather returns: every fetch_status of the call has completed with
\* a body or an error dict (the fetches share no state, so their completions
\* are taken together), and lines 82-90 run; the clock may advance between
\* the writes of the loop
Finish(c) ==
    /\ calls[c].pc = "gather"
    /\ NoReturnPending
    /\ \E results \in [1..Len(calls[c].hostnames) -> FetchResults], dt \in {0, 1} :
          /\ now + dt * (Len(calls[c].hostnames) - 1) <= MaxTime
          /\ STATUS_CACHE' = write_results(STATUS_CACHE, calls[c].hostnames,
                                           results, now, dt)
          /\ now' = now + dt * (Len(calls[c].hostnames) - 1)
          /\ calls' = [Disturb(calls, c, SeqToSet(calls[c].hostnames)) EXCEPT ![c] =
                         [calls[c] EXCEPT !.pc = "returned",
                                          !.results = results,
                                          !.wrote = SeqToSet(calls[c].hostnames),
                                          !.ret = all_cached(Devices, STATUS_CACHE')]]
    /\ UNCHANGED store_state
    /\ UNCHANGED cycle_vars
    /\ UNCHANGED fetch_vars
    /\ UNCHANGED applied_vars
    /\ UNCHANGED rest_vars

\* the caller is done with the returned map
Forget(c) ==
    /\ calls[c].pc = "returned"
    /\ calls' = [calls EXCEPT ![c] = IdleCall]
    /\ UNCHANGED <<STATUS_CACHE, now>>
    /\ UNCHANGED store_state
    /\ UNCHANGED cycle_vars
    /\ UNCHANGED fetch_vars
    /\ UNCHANGED applied_vars
    /\ UNCHANGED rest_vars

\* a second passes
CacheTick ==
    /\ now < MaxTime
    /\ NoReturnPending
    /\ now' = now + 1
    /\ UNCHANGED <<STATUS_CACHE, calls>>
    /\ UNCHANGED store_state
    /\ UNCHANGED cycle_vars
    /\ UNCHANGED fetch_vars
    /\ UNCHANGED applied_vars
    /\ UNCHANGED rest_vars

(***************************************************************************)
(* The store as a state machine.  check_and_update_best_diff is a plain    *)
(* (non-async) function called from the event loop, so one call is one     *)
(* step.                                                                   *)
(***************************************************************************)
\* A file left by an earlier run of the program
InitialFiles ==
    {NoFile,
     save_best_diff(NoFile, 500000, D_500K, "bitaxe", 0, [kind |-> "ok", cut |-> 0])}

\* The record a file holds, None when it holds none
file_record(file) ==
    IF file.exists /\ json_load(file.text).kind = "ok"
    THEN json_load(file.text).obj
    ELSE None

\* The magnitude of a record, "no record" counting as 0
record_value(rec) == IF "value" \in DOMAIN rec THEN rec.value ELSE 0

Max(a, b) == IF a >= b THEN a ELSE b

StoreInit ==
    /\ best_diff_history = EmptyList
    /\ best_diff_file \in InitialFiles
    /\ now = 0
    /\ last = [op |-> "none"]
    /\ written = [rec |-> file_record(best_diff_file),
                  max |-> record_value(file_record(best_diff_file))]
    /\ io_fault = FALSE
    /\ STATUS_CACHE = <<>>
    /\ calls = [c \in Calls |-> IdleCall]
    /\ cycle = IdleCycle
    /\ fetch = IdleFetch
    /\ applied = NotApplied
    /\ gather = IdleGather
    /\ alerts = NoAlerts
    /\ bot = NewBot
    /\ update = IdleUpdate

\* One call check_and_update_best_diff(status), load_best_diff() included.
\* The environment decides whether the read (when load_best_diff reads the
\* file) and the write (when save_best_diff is called) succeed.
CheckAndUpdate ==
    \E status \in Statuses :
    \E read_error \in (IF reads_file(best_diff_history, best_diff_file)
                       THEN BOOLEAN ELSE {FALSE}) :
    \E current_best \in {load_best_diff(best_diff_history, best_diff_file, read_error)} :
    \E outcome \in (IF check_and_update_best_diff(current_best, best_diff_file,
                           status, now, [kind |-> "ok", cut |-> 0]).saved
                    THEN WriteOutcomes ELSE {[kind |-> "none", cut |-> 0]}) :
    \E r \in {check_and_update_best_diff(current_best, best_diff_file, status,
                                         now, outcome)} :
        /\ best_diff_history' = current_best
        /\ best_diff_file' = r.file
        /\ last' = [op |-> "check", status |-> status,
                    observed |-> record_value(current_best.d),
                    numeric |-> ParsedDiff[status.bestDiff],
                    raised |-> r.raised, new_record |-> r.new_record,
                    new_record_value |-> r.new_record_value,
                    saved |-> r.saved, outcome |-> outcome.kind]
        /\ written' = IF r.saved /\ outcome.kind = "ok"
                      THEN [rec |-> file_record(r.file),
                            max |-> Max(written.max, record_value(file_record(r.file)))]
                      ELSE written
        /\ io_fault' = (io_fault \/ read_error \/ (r.saved /\ outcome.kind # "ok"))
        /\ UNCHANGED now
        /\ UNCHANGED cache_vars
        /\ UNCHANGED cycle_vars
        /\ UNCHANGED fetch_vars
        /\ UNCHANGED applied_vars
        /\ UNCHANGED rest_vars

\* A call of load_best_diff() on its own (format_status_embeds, line 257)
LoadBestDiff ==
    \E read_error \in BOOLEAN :
        /\ best_diff_history' = load_best_diff(best_diff_history, best_diff_file, read_error)
        /\ last' = [op |-> "load",
                    did_read |-> reads_file(best_diff_history, best_diff_file)]
        /\ io_fault' = (io_fault \/ (reads_file(best_diff_history, best_diff_file)
                                     /\ read_error))
        /\ UNCHANGED <<best_diff_file, now, written>>
        /\ UNCHANGED cache_vars
        /\ UNCHANGED cycle_vars
        /\ UNCHANGED fetch_vars
        /\ UNCHANGED applied_vars
        /\ UNCHANGED rest_vars

\* The process is restarted: the module is imported again (line 44)
Restart ==
    /\ best_diff_history' = EmptyList
    /\ last' = [op |-> "restart"]
    /\ UNCHANGED <<best_diff_file, now, written, io_fault>>
    /\ UNCHANGED cache_vars
    /\ UNCHANGED cycle_vars
    /\ UNCHANGED fetch_vars
    /\ UNCHANGED applied_vars
    /\ UNCHANGED rest_vars

\* Time passes
Tick ==
    /\ now < MaxNow
    /\ now' = now + 1
    /\ UNCHANGED store_state
    /\ UNCHANGED cache_vars
    /\ UNCHANGED cycle_vars
    /\ UNCHANGED fetch_vars
    /\ UNCHANGED applied_vars
    /\ UNCHANGED rest_vars

(***************************************************************************)
(* One cycle of format_status_embeds() (status_overview.py 255-300): the   *)
(* statuses are fetched through call 1 of get_all_device_statuses, then    *)
(* the loop of lines 278-297 visits them.  The loop has no await; the      *)
(* model still lets the other calls run between two visits.                *)
(***************************************************************************)
\* the loop visiting the statuses of the cache instead of the returned map
cycle_status_from_cache(data, cache, hostname) == cache[hostname].data

\* for hostname, status in data.items(): the status the loop visits
cycle_status(data, cache, hostname) == data[hostname]

\* the host names of data in the order of the dict (the order of get_devices)
RECURSIVE data_items(_, _)
data_items(devices, data) ==
    IF devices = <<>> THEN <<>>
    ELSE (IF Head(devices).name \in DOMAIN data THEN <<Head(devices).name>> ELSE <<>>)
         \o data_items(Tail(devices), data)

\* the argument check_and_update_best_diff reads from a unified status
best_diff_status(status) ==
    [bestDiff |-> py_str(status.bestDiff), hostname |-> status.hostname.v]

\* lines 256-257: get_all_device_statuses() has returned; load_best_diff()
CycleLoad ==
    /\ cycle.pc = "idle"
    /\ calls[CycleCall].pc = "returned"
    /\ cycle' = [pc |-> "loop", data |-> calls[CycleCall].ret,
                 todo |-> data_items(Devices, calls[CycleCall].ret),
                 evaluated |-> <<>>]
    /\ best_diff_history' = load_best_diff(best_diff_history, best_diff_file, FALSE)
    /\ UNCHANGED <<best_diff_file, now, last, written, io_fault>>
    /\ UNCHANGED cache_vars
    /\ UNCHANGED fetch_vars
    /\ UNCHANGED applied_vars
    /\ UNCHANGED rest_vars

\* one pass of the loop of lines 278-297: a status with an error is skipped,
\* any other is handed to check_and_update_best_diff; an exception is caught
\* by line 296
CycleEvaluate ==
    /\ cycle.pc = "loop"
    /\ cycle.todo # <<>>
    /\ LET hostname == Head(cycle.todo)
           status == cycle_status(cycle.data, STATUS_CACHE, hostname)
       IN IF "error" \in DOMAIN status
          THEN /\ cycle' = [cycle EXCEPT !.todo = Tail(@)]
               /\ UNCHANGED <<best_diff_history, best_diff_file>>
          ELSE LET current_best == load_best_diff(best_diff_history, best_diff_file, FALSE)
                   r == check_and_update_best_diff(current_best, best_diff_file,
                            best_diff_status(status), now, [kind |-> "ok", cut |-> 0])
               IN /\ cycle' = [cycle EXCEPT
                                  !.todo = Tail(@),
                                  !.evaluated = Append(@, [hostname |-> hostname,
                                                           status |-> status,
                                                           new_record |-> r.new_record])]
                  /\ best_diff_history' = current_best
                  /\ best_diff_file' = r.file
    /\ UNCHANGED <<now, last, written, io_fault>>
    /\ UNCHANGED cache_vars
    /\ UNCHANGED fetch_vars
    /\ UNCHANGED applied_vars
    /\ UNCHANGED rest_vars

\* the loop is over: the embeds are built and format_status_embeds returns
CycleEnd ==
    /\ cycle.pc = "loop"
    /\ cycle.todo = <<>>
    /\ cycle' = IdleCycle
    /\ calls' = [calls EXCEPT ![CycleCall] = IdleCall]
    /\ UNCHANGED <<STATUS_CACHE, now>>
    /\ UNCHANGED store_state
    /\ UNCHANGED fetch_vars
    /\ UNCHANGED applied_vars
    /\ UNCHANGED rest_vars

(***************************************************************************)
(* fetch_status(ip) (device_status.py 21-47).                              *)
(***************************************************************************)
\* aiohttp.ClientTimeout(total=5): seconds until the request times out
FETCH_TIMEOUT == 5

\* The exceptions the request and the decoding of the body can raise
TimeoutError == [class |-> "TimeoutError", msg |-> ""]

ClientConnectorError == [class |-> "ClientConnectorError", msg |-> "Cannot connect to host"]

ServerDisconnectedError == [class |-> "ServerDisconnectedError", msg |-> "Server disconnected"]

ContentTypeError == [class |-> "ContentTypeError", msg |-> "unexpected mimetype"]

JSONDecodeError == [class |-> "JSONDecodeError", msg |-> "Expecting value"]

OSError == [class |-> "OSError", msg |-> "Too many open files"]

\* Raised by session.get() before the time is up
GetExceptions == {ClientConnectorError, ServerDisconnectedError, OSError}

\* Raised by response.json() before the time is up
JsonExceptions == {ContentTypeError, JSONDecodeError}

\* The bodies a device answers with
PayloadBare == [temp |-> JNum(70)]

Bodies == {PayloadOk, PayloadBare, EmptyDict}

\* The ip addresses of the configured devices
Ips == {Devices[i].ip : i \in 1..Len(Devices)} \ {""}

\* isinstance(exc, cls) for the classes of the except clauses
IsInstance(exc, cls) ==
    CASE cls = "asyncio.TimeoutError" -> exc.class = "TimeoutError"
      [] cls = "aiohttp.ClientError" ->
             exc.class \in {"ClientConnectorError", "ServerDisconnectedError",
                            "ContentTypeError"}
      [] cls = "Exception" -> TRUE

\* the except clauses without the last one
fetch_except_no_catch_all(exc) ==
    IF IsInstance(exc, "asyncio.TimeoutError")
    THEN [result |-> [error |-> JStr("timeout")], raised |-> NoException]
    ELSE IF IsInstance(exc, "aiohttp.ClientError")
    THEN [result |-> [error |-> JStr(exc.msg)], raised |-> NoException]
    ELSE [result |-> None, raised |-> exc]

\* the except clauses of lines 39-47: what fetch_status returns for an
\* exception raised inside the try
fetch_except(exc) ==
    IF IsInstance(exc, "asyncio.TimeoutError")
    THEN [result |-> [error |-> JStr("timeout")], raised |-> NoException]
    ELSE IF IsInstance(exc, "aiohttp.ClientError")
    THEN [result |-> [error |-> JStr(exc.msg)], raised |-> NoException]
    ELSE IF IsInstance(exc, "Exception")
    THEN [result |-> [error |-> JStr(exc.msg)], raised |-> NoException]
    ELSE [result |-> None, raised |-> exc]

\* fetch_status ends with the exception exc raised inside the try
Failed(exc) ==
    [fetch EXCEPT !.pc = "done", !.failure = exc,
                  !.result = fetch_except(exc).result,
                  !.raised = fetch_except(exc).raised]

FetchFrame ==
    /\ UNCHANGED <<now, STATUS_CACHE, calls>>
    /\ UNCHANGED store_state
    /\ UNCHANGED cycle_vars
    /\ UNCHANGED applied_vars
    /\ UNCHANGED rest_vars

\* fetch_status(ip) is called: the session is opened and the request made
\* (lines 34-36)
FetchCall ==
    /\ fetch.pc = "idle"
    /\ \E ip \in Ips :
          fetch' = [IdleFetch EXCEPT !.pc = "get", !.ip = ip, !.attempts = 1]
    /\ FetchFrame

\* a second passes while the request or the decoding is pending
FetchWait ==
    /\ fetch.pc \in {"get", "json"}
    /\ fetch.elapsed < FETCH_TIMEOUT
    /\ fetch' = [fetch EXCEPT !.elapsed = @ + 1]
    /\ FetchFrame

\* session.get() ends (line 36): with the response, with an exception, or,
\* once the time is up, with asyncio.TimeoutError
FetchGet ==
    /\ fetch.pc = "get"
    /\ IF fetch.elapsed = FETCH_TIMEOUT
       THEN fetch' = Failed(TimeoutError)
       ELSE \/ fetch' = [fetch EXCEPT !.pc = "json"]
            \/ \E exc \in GetExceptions : fetch' = Failed(exc)
    /\ FetchFrame

\* response.json() ends (line 38): with the decoded body, which fetch_status
\* returns, with an exception, or, once the time is up, with
\* asyncio.TimeoutError
FetchJson ==
    /\ fetch.pc = "json"
    /\ IF fetch.elapsed = FETCH_TIMEOUT
       THEN fetch' = Failed(TimeoutError)
       ELSE \/ \E body \in Bodies :
                  fetch' = [fetch EXCEPT !.pc = "done", !.result = body]
            \/ \E exc \in JsonExceptions : fetch' = Failed(exc)
    /\ FetchFrame

\* the caller has the result
FetchReturn ==
    /\ fetch.pc = "done"
    /\ fetch' = IdleFetch
    /\ FetchFrame

(***************************************************************************)
(* asyncio.gather over the fetch_status tasks of one call                  *)
(* (device_status.py 77-81).  Every task is a fetch_status of its own with *)
(* its own ClientTimeout; a device that hangs never answers.               *)
(***************************************************************************)
\* Seconds the model lets a request wait at most
MaxElapsed == 6

\* a request without a time limit
timed_out_never(elapsed) == FALSE

\* aiohttp.ClientTimeout(total=5) of line 36: the time of a request is up
timed_out(elapsed) == elapsed >= FETCH_TIMEOUT

\* The tasks of a call that finds no device cached
NumTasks == Len(stale_hostnames(Devices, <<>>, 0))

GatherFrame ==
    /\ UNCHANGED <<now, STATUS_CACHE, calls>>
    /\ UNCHANGED store_state
    /\ UNCHANGED cycle_vars
    /\ UNCHANGED fetch_vars
    /\ UNCHANGED applied_vars
    /\ UNCHANGED <<alerts, bot, update>>

AllDone(tasks) == \A i \in 1..Len(tasks) : tasks[i].pc = "done"

\* lines 67-81: one task per device to fetch, handed to asyncio.gather; the
\* environment decides which devices hang
GatherStart ==
    /\ gather.pc = "idle"
    /\ \E hung \in [1..NumTasks -> BOOLEAN] :
          gather' = [pc |-> "gather",
                     tasks |-> [i \in 1..NumTasks |->
                                  [hostname |-> stale_hostnames(Devices, <<>>, 0)[i],
                                   hung |-> hung[i], pc |-> "created",
                                   elapsed |-> 0, result |-> None]]]
    /\ GatherFrame

\* the event loop runs the task i: fetch_status opens its session and makes
\* its request (lines 34-36)
TaskStart(i) ==
    /\ gather.pc = "gather"
    /\ i \in 1..Len(gather.tasks)
    /\ gather.tasks[i].pc = "created"
    /\ gather' = [gather EXCEPT !.tasks[i].pc = "get"]
    /\ GatherFrame

\* a device that does not hang answers before the time is up, with a body
\* or with a refused connection
TaskAnswer(i) ==
    /\ gather.pc = "gather"
    /\ i \in 1..Len(gather.tasks)
    /\ gather.tasks[i].pc = "get"
    /\ ~gather.tasks[i].hung
    /\ ~timed_out(gather.tasks[i].elapsed)
    /\ \E result \in {PayloadOk, fetch_except(ClientConnectorError).result} :
          gather' = [gather EXCEPT !.tasks[i].pc = "done",
                                   !.tasks[i].result = result]
    /\ GatherFrame

\* the time of the request of task i is up: asyncio.TimeoutError, which
\* fetch_status returns as an error (lines 39-41)
TaskTimeout(i) ==
    /\ gather.pc = "gather"
    /\ i \in 1..Len(gather.tasks)
    /\ gather.tasks[i].pc = "get"
    /\ timed_out(gather.tasks[i].elapsed)
    /\ gather' = [gather EXCEPT !.tasks[i].pc = "done",
                                !.tasks[i].result = fetch_except(TimeoutError).result]
    /\ GatherFrame

\* a second passes for every pending request; the event loop has started
\* every task before it waits, and a request whose time is up ends first
GatherTick ==
    /\ gather.pc = "gather"
    /\ \E i \in 1..Len(gather.tasks) : gather.tasks[i].pc = "get"
    /\ \A i \in 1..Len(gather.tasks) :
          /\ gather.tasks[i].pc # "created"
          /\ gather.tasks[i].pc = "get" =>
                (/\ ~timed_out(gather.tasks[i].elapsed)
                 /\ gather.tasks[i].elapsed < MaxElapsed)
    /\ gather' = [gather EXCEPT !.tasks =
                     [i \in 1..Len(gather.tasks) |->
                        IF gather.tasks[i].pc = "get"
                        THEN [gather.tasks[i] EXCEPT !.elapsed = @ + 1]
                        ELSE gather.tasks[i]]]
    /\ GatherFrame

\* every task is done: asyncio.gather returns the results (line 81) and the
\* call goes on to write them and return (lines 82-90)
GatherReturn ==
    /\ gather.pc = "gather"
    /\ AllDone(gather.tasks)
    /\ gather' = [gather EXCEPT !.pc = "returned"]
    /\ GatherFrame

\* the caller has the map
GatherForget ==
    /\ gather.pc = "returned"
    /\ gather' = IdleGather
    /\ GatherFrame

(***************************************************************************)
(* unify_status and get_value applied to the payloads a device can send.   *)
(***************************************************************************)
\* A key the payload does not have
Absent == [t |-> "absent", v |-> 0]

\* For each key of a payload, what the payload may hold for it
PayloadChoices ==
    [hostname : {Absent, JStr("axe"), JStr("")},
     ip : {Absent, JStr("10.0.0.9"), JStr("")},
     hostip : {Absent, JStr("10.0.0.7")},
     temp : {Absent, JNum(65), JNum(0)},
     bestDiff : {Absent, JStr(D_1_5M)},
     boardVersion : {Absent, JStr("204")},
     stratum : {Absent, JDict([poolMode |-> JStr("solo")]), JDict(EmptyDict),
                JStr("flat"), JList(<<JStr("poolMode")>>)},
     error : {Absent, JStr("timeout"), JStr("")}]

PayloadKeys ==
    {"hostname", "ip", "hostip", "temp", "bestDiff", "boardVersion", "stratum", "error"}

\* The dict of a choice: the keys that are not absent
payload_of(choice) ==
    [k \in {key \in PayloadKeys : choice[key] # Absent} |-> choice[k]]

RawPayloads == {payload_of(choice) : choice \in PayloadChoices}

\* The key lists of unify_status and of the tests
KeyLists ==
    {<<>>, <<"temp">>, <<"hostname">>, <<"ip", "hostip">>, <<"hostip", "ip">>,
     <<"stratum", "poolMode">>, <<"stratum", "url">>, <<"stratum", "poolMode", "x">>,
     <<"temp", "stratum">>, <<"voltage", "stratum">>, <<"voltage">>}

\* unify_status(data, hostname) is called
ApplyUnifyStatus ==
    /\ applied = NotApplied
    /\ \E data \in RawPayloads, hostname \in Hostnames :
          applied' = [op |-> "unify_status", data |-> data, hostname |-> hostname,
                      result |-> unify_status(data, hostname)]
    /\ UNCHANGED <<now, STATUS_CACHE, calls>>
    /\ UNCHANGED store_state
    /\ UNCHANGED cycle_vars
    /\ UNCHANGED fetch_vars
    /\ UNCHANGED rest_vars

\* get_value(data, keys) is called
ApplyGetValue ==
    /\ applied = NotApplied
    /\ \E data \in RawPayloads, keys \in KeyLists :
          applied' = [op |-> "get_value", data |-> data, keys |-> keys,
                      result |-> get_value(data, keys)]
    /\ UNCHANGED <<now, STATUS_CACHE, calls>>
    /\ UNCHANGED store_state
    /\ UNCHANGED cycle_vars
    /\ UNCHANGED fetch_vars
    /\ UNCHANGED rest_vars

\* the call has returned to its caller
ApplyReturn ==
    /\ applied # NotApplied
    /\ applied' = NotApplied
    /\ UNCHANGED <<now, STATUS_CACHE, calls>>
    /\ UNCHANGED store_state
    /\ UNCHANGED cycle_vars
    /\ UNCHANGED fetch_vars
    /\ UNCHANGED rest_vars

(***************************************************************************)
(* The suffix parser and the record comparison on their own                *)
(* (status_overview.py lines 161-182), applied to a record that is already *)
(* in memory.                                                              *)
(***************************************************************************)
\* Records load_best_diff() may hand to the comparison: nothing, an empty
\* object, and records saved under different suffixes and host names
KnownRecords ==
    {EmptyList, PyDict(EmptyDict)}
    \cup {PyDict(best_record(ParsedDiff[s].val, s, h, 0)) :
             s \in {D_500K, D_0_5M, D_1_5M, D_2G}, h \in Hostnames}

\* int(float(val_str)) is evaluated for a difficulty string
ApplyParse ==
    /\ applied = NotApplied
    /\ \E best_diff \in ParseStrings :
          applied' = [op |-> "parse_best_diff", best_diff |-> best_diff,
                      result |-> ParsedDiff[best_diff]]
    /\ UNCHANGED <<now, STATUS_CACHE, calls>>
    /\ UNCHANGED store_state
    /\ UNCHANGED cycle_vars
    /\ UNCHANGED fetch_vars
    /\ UNCHANGED rest_vars

\* check_and_update_best_diff(status) is called with current_best in memory
ApplyCheck ==
    /\ applied = NotApplied
    /\ \E current_best \in KnownRecords,
          status \in [bestDiff : ParseStrings, hostname : Hostnames] :
          applied' = [op |-> "check_and_update_best_diff",
                      current_best |-> current_best, status |-> status,
                      result |-> check_and_update_best_diff(
                                    current_best, NoFile, status, 0,
                                    [kind |-> "ok", cut |-> 0])]
    /\ UNCHANGED <<now, STATUS_CACHE, calls>>
    /\ UNCHANGED store_state
    /\ UNCHANGED cycle_vars
    /\ UNCHANGED fetch_vars
    /\ UNCHANGED rest_vars

(***************************************************************************)
(* Config.get and Config.getint (config.py lines 46-92).  The environment  *)
(* and the one section of config.ini are dicts from names to texts; a text *)
(* is a sequence of characters.                                            *)
(***************************************************************************)
T_empty == <<>>

T_42 == <<"4", "2">>

T_7 == <<"7">>

T_minus_3_padded == <<" ", "-", "3", " ">>

T_not_a_number == <<"n", "o", "t", "_", "a", "_", "n", "u", "m", "b", "e", "r">>

T_env_token == <<"e", "n", "v", "_", "t", "o", "k", "e", "n">>

T_file_token == <<"f", "i", "l", "e", "_", "t", "o", "k", "e", "n">>

\* os.environ: the variable is not set, or set to one of these texts
Environments ==
    {EmptyDict}
    \cup {[n \in {"TEST_VAR"} |-> v] :
             v \in {T_empty, T_42, T_minus_3_padded, T_not_a_number, T_env_token}}

\* the section of config.ini: the key is missing, or has one of these texts
ConfigFiles ==
    {EmptyDict}
    \cup {[k \in {"key"} |-> v] : v \in {T_empty, T_7, T_file_token}}

\* the env_var argument: None, or the name of the variable
EnvVarArgs == {"", "TEST_VAR"}

\* the fallback argument
Fallbacks == {JNone, JNum(10)}

\* int(text): blanks around the number and a sign are accepted; anything
\* else is a ValueError
int_of_text(text) ==
    LET t == str_strip(text)
        signed == t # <<>> /\ t[1] \in {"+", "-"}
        ds == IF signed THEN Tail(t) ELSE t
    IN IF ds = <<>> \/ ~AllDigits(ds) THEN ValueErr
       ELSE [kind |-> "int",
             val |-> IF signed /\ t[1] = "-" THEN 0 - DigitsToNat(ds)
                     ELSE DigitsToNat(ds)]

\* a test that asks whether the variable is in the environment
env_var_given_in_environ(environ, env_var) ==
    env_var # "" /\ env_var \in DOMAIN environ

\* "env_var and os.getenv(env_var)" (lines 59 and 81): a name is given and
\* the variable has a non-empty value
env_var_given(environ, env_var) ==
    env_var # "" /\ env_var \in DOMAIN environ /\ environ[env_var] # <<>>

\* Config.get (lines 46-66)
Config_get(environ, config, key, fallback, env_var) ==
    IF env_var_given(environ, env_var) THEN JStr(environ[env_var])
    ELSE IF key \in DOMAIN config THEN JStr(config[key])
    ELSE fallback

\* Config.getint (lines 68-92)
Config_getint(environ, config, key, fallback, env_var) ==
    LET from_env == int_of_text(environ[env_var])
        from_file == int_of_text(config[key])
    IN IF env_var_given(environ, env_var) /\ from_env.kind = "int"
       THEN JNum(from_env.val)
       ELSE IF key \in DOMAIN config /\ from_file.kind = "int"
       THEN JNum(from_file.val)
       ELSE fallback

\* config.get(section, key, fallback, env_var) is called
ApplyConfigGet ==
    /\ applied = NotApplied
    /\ \E environ \in Environments, config \in ConfigFiles,
          fallback \in Fallbacks, env_var \in EnvVarArgs :
          applied' = [op |-> "get", environ |-> environ, config |-> config,
                      fallback |-> fallback, env_var |-> env_var,
                      result |-> Config_get(environ, config, "key", fallback,
                                            env_var)]
    /\ UNCHANGED <<now, STATUS_CACHE, calls>>
    /\ UNCHANGED store_state
    /\ UNCHANGED cycle_vars
    /\ UNCHANGED fetch_vars
    /\ UNCHANGED rest_vars

\* config.getint(section, key, fallback, env_var) is called
ApplyConfigGetInt ==
    /\ applied = NotApplied
    /\ \E environ \in Environments, config \in ConfigFiles,
          fallback \in Fallbacks, env_var \in EnvVarArgs :
          applied' = [op |-> "getint", environ |-> environ, config |-> config,
                      fallback |-> fallback, env_var |-> env_var,
                      result |-> Config_getint(environ, config, "key",
                                               fallback, env_var)]
    /\ UNCHANGED <<now, STATUS_CACHE, calls>>
    /\ UNCHANGED store_state
    /\ UNCHANGED cycle_vars
    /\ UNCHANGED fetch_vars
    /\ UNCHANGED rest_vars

(***************************************************************************)
(* update_status() and check_and_send_alerts() (main.py 154-277).  The     *)
(* call of line 227 is read as a call of format_status_embeds, the only    *)
(* function of status_overview.py it can mean (line 17 imports the name    *)
(* format_status_embed, which the module does not define).  What Discord   *)
(* answers to a request is the environment's choice.                       *)
(***************************************************************************)
NoError == [class |-> "none", status |-> 0]

DiscordNotFound == [class |-> "NotFound", status |-> 404]

DiscordForbidden == [class |-> "Forbidden", status |-> 403]

RateLimited == [class |-> "HTTPException", status |-> 429]

ServerError == [class |-> "HTTPException", status |-> 500]

AttributeError == [class |-> "AttributeError", status |-> 0]

\* isinstance(exc, cls) for the classes of the except clauses of main.py
IsDiscordInstance(exc, cls) ==
    CASE cls = "discord.NotFound" -> exc.class = "NotFound"
      [] cls = "discord.Forbidden" -> exc.class = "Forbidden"
      [] cls = "discord.HTTPException" ->
             exc.class \in {"HTTPException", "NotFound", "Forbidden"}
      [] cls = "Exception" -> exc.class # "none"

\* what last_message.edit() may do: a deleted message is not found
EditOutcomes(deleted) ==
    IF deleted THEN {DiscordNotFound}
    ELSE {NoError, RateLimited, ServerError, DiscordForbidden, AttributeError}

\* what channel.send() may do
SendOutcomes == {NoError, ServerError, DiscordForbidden, AttributeError}

\* the fields of a unified status that check_and_send_alerts reads
AlertStatus(temp, vrTemp) == [temp |-> JNum(temp), vrTemp |-> JNum(vrTemp)]

\* the statuses of one run: one device reports normal or critical readings,
\* the other answers or fails
RunStatuses ==
    {[d \in PolledNames |-> IF d = "bitaxe" THEN a ELSE b] :
        a \in {AlertStatus(60, 50), AlertStatus(75, 50), AlertStatus(60, 85)},
        b \in {AlertStatus(60, 50), ErrTimeout}}

\* a run in which no reading is critical
CalmStatuses == {[d \in PolledNames |-> AlertStatus(60, 50)]}

\* lines 534-550 and 592-596 of format_status_embeds: with a record loaded
\* at line 257 and a new record in this run, line 548 reads the undefined
\* name MENTION_ID; otherwise the embeds, new_record and new_record_value
\* are returned
format_status_embeds_result(current_best, checked) ==
    IF checked.new_record /\ ~Falsy(current_best)
    THEN [raised |-> "NameError", new_record |-> FALSE, new_record_value |-> <<>>]
    ELSE [raised |-> "none", new_record |-> checked.new_record,
          new_record_value |-> IF checked.new_record
                               THEN checked.new_record_value.str ELSE <<>>]

\* an update that sends a new message in every run
update_message_always_send(last_message, edit_exc, send_exc, new_message) ==
    IF send_exc = NoError
    THEN [last_message |-> new_message, did |-> "send", raised |-> NoError]
    ELSE [last_message |-> last_message, did |-> "none", raised |-> send_exc]

\* lines 233-251: edit the previous message, or send a new one when there is
\* none or it is not found; what last_message is afterwards, what was done,
\* and the exception that leaves the block
update_message(last_message, edit_exc, send_exc, new_message) ==
    LET send == IF send_exc = NoError
                THEN [last_message |-> new_message, did |-> "send",
                      raised |-> NoError]
                ELSE [last_message |-> last_message, did |-> "none",
                      raised |-> send_exc]
    IN IF last_message # 0
       THEN IF edit_exc = NoError
            THEN [last_message |-> last_message, did |-> "edit", raised |-> NoError]
            ELSE IF IsDiscordInstance(edit_exc, "discord.NotFound") THEN send
            ELSE IF IsDiscordInstance(edit_exc, "discord.HTTPException")
                    /\ edit_exc.status = 429
            THEN [last_message |-> last_message, did |-> "wait", raised |-> NoError]
            ELSE [last_message |-> last_message, did |-> "none", raised |-> edit_exc]
       ELSE send

\* alert_key not in alert_cooldowns or (now - alert_cooldowns[alert_key]) >
\* ALERT_COOLDOWN
alert_due(alert_cooldowns, alert_key, t) ==
    \/ alert_key \notin DOMAIN alert_cooldowns
    \/ t - alert_cooldowns[alert_key] > ALERT_COOLDOWN

\* x and isinstance(x, (int, float)) and x >= threshold; a bool is an int
\* but never reaches a threshold
is_critical(x, threshold) == Truthy(x) /\ x.t = "num" /\ x.v >= threshold

\* status.get('status') == 'Offline'
is_offline(status) ==
    "status" \in DOMAIN status /\ status["status"].t = "str"
        /\ status["status"].v = "Offline"

\* lines 163-194 of check_and_send_alerts: the alert kinds appended,
\* alert_cooldowns afterwards, and the _offline_count left in the status;
\* offline_count is the _offline_count the status came with, -1 for none.
\* The key f"{device_name}_{kind}" is the pair <<device_name, kind>>.
check_alerts(alert_cooldowns, device_name, status, offline_count, t) ==
    LET count == IF is_offline(status)
                 THEN (IF offline_count = -1 THEN 0 ELSE offline_count) + 1
                 ELSE 0
        offline == /\ is_offline(status)
                   /\ count >= OFFLINE_ALERT_THRESHOLD
                   /\ alert_due(alert_cooldowns, <<device_name, "offline">>, t)
        temp == /\ is_critical(dict_get(status, "temp", JNone), TEMP_CRITICAL)
                /\ alert_due(alert_cooldowns, <<device_name, "temp">>, t)
        vrtemp == /\ is_critical(dict_get(status, "vrTemp", JNone), VR_TEMP_CRITICAL)
                  /\ alert_due(alert_cooldowns, <<device_name, "vrtemp">>, t)
        keys == (IF offline THEN {<<device_name, "offline">>} ELSE {})
                \cup (IF temp THEN {<<device_name, "temp">>} ELSE {})
                \cup (IF vrtemp THEN {<<device_name, "vrtemp">>} ELSE {})
    IN [alerts |-> keys,
        alert_cooldowns |-> [k \in DOMAIN alert_cooldowns \cup keys |->
                                IF k \in keys THEN t ELSE alert_cooldowns[k]],
        offline_count |-> count]

\* the alerts a run owes at its start: the readings at or above their
\* threshold for which no alert was produced in the last ALERT_COOLDOWN
\* minutes
DueAlerts(statuses, produced, t) ==
    LET outside(k) == k \notin DOMAIN produced \/ t - produced[k] > ALERT_COOLDOWN
        hot(d, field, threshold) ==
            field \in DOMAIN statuses[d] /\ statuses[d][field].v >= threshold
    IN {k \in {<<d, "temp">> : d \in DOMAIN statuses} :
           hot(k[1], "temp", TEMP_CRITICAL) /\ outside(k)}
       \cup {k \in {<<d, "vrtemp">> : d \in DOMAIN statuses} :
                hot(k[1], "vrTemp", VR_TEMP_CRITICAL) /\ outside(k)}

UpdateFrame ==
    /\ UNCHANGED <<now, STATUS_CACHE, calls>>
    /\ UNCHANGED store_state
    /\ UNCHANGED cycle_vars
    /\ UNCHANGED fetch_vars
    /\ UNCHANGED applied_vars
    /\ UNCHANGED <<gather, bot>>

\* the run ends: the finished log is kept, the locals are dropped
EndRun(log) ==
    [update EXCEPT !.pc = "done", !.statuses = EmptyDict, !.todo = <<>>,
                   !.new_record_device = FALSE, !.new_record_value = <<>>,
                   !.log = [log EXCEPT !.ran = TRUE]]

\* lines 220-227: the channel is looked up; without one the run returns.
\* format_status_embeds() fetches the statuses, loads the record and checks
\* each status against it; an exception it raises ends the run at line 276
UpdateBegin(StatusSet) ==
    /\ update.pc = "idle"
    /\ \E channel \in BOOLEAN, statuses \in StatusSet,
          current_best \in {EmptyList, PyDict(best_record(500000, D_500K, "bitaxe", 0))},
          best_diff \in {D_dash, D_900K} :
          LET checked == check_and_update_best_diff(
                             current_best, NoFile,
                             [bestDiff |-> best_diff, hostname |-> "bitaxe"], 0,
                             [kind |-> "ok", cut |-> 0])
              formatted == format_status_embeds_result(current_best, checked)
              log == [NoLog EXCEPT
                         !.reported = checked.new_record,
                         !.due = DueAlerts(statuses, alerts.produced, alerts.clock)]
          IN IF ~channel
             THEN update' = EndRun([NoLog EXCEPT !.discord_ok = FALSE])
             ELSE IF formatted.raised # "none"
             THEN update' = EndRun(log)
             ELSE update' = [update EXCEPT
                                !.pc = "message", !.statuses = statuses,
                                !.new_record_device = formatted.new_record,
                                !.new_record_value = formatted.new_record_value,
                                !.log = log]
    /\ UNCHANGED alerts
    /\ UpdateFrame

\* lines 230-257: the status message is edited or sent and
\* get_all_device_statuses() returns the statuses; an exception
\* that leaves the block ends the run at lines 272-277
UpdateMessage ==
    /\ update.pc = "message"
    /\ \E edit_exc \in EditOutcomes(update.deleted), send_exc \in SendOutcomes :
          LET m == update_message(update.last_message, edit_exc, send_exc,
                                  update.sent + 1)
              asked_edit == update.last_message # 0
              asked_send == update.last_message = 0
                            \/ IsDiscordInstance(edit_exc, "discord.NotFound")
              ok == /\ asked_edit => edit_exc \in {NoError, DiscordNotFound}
                    /\ asked_send => send_exc = NoError
              log == [update.log EXCEPT
                         !.discord_ok = @ /\ ok,
                         !.did = m.did]
          IN IF m.raised # NoError
             THEN update' = EndRun(log)
             ELSE update' = [update EXCEPT
                                !.pc = "alerts",
                                !.last_message = m.last_message,
                                !.sent = IF m.did = "send" THEN @ + 1 ELSE @,
                                !.deleted = IF m.did = "send" THEN FALSE ELSE @,
                                !.todo = data_items(Devices, update.statuses),
                                !.log = log]
    /\ UNCHANGED alerts
    /\ UpdateFrame

\* line 259: check_and_send_alerts for the next device.  The status is the
\* cached dict of the run before, with the _offline_count left in it, or a
\* dict fetched since.  HTTPException from channel.send is caught at line
\* 203; any other exception ends the run at line 276
UpdateAlert ==
    /\ update.pc = "alerts"
    /\ update.todo # <<>>
    /\ \E refetched \in BOOLEAN, send_exc \in SendOutcomes :
          LET device_name == Head(update.todo)
              status == update.statuses[device_name]
              c == check_alerts(alerts.alert_cooldowns, device_name, status,
                                IF refetched THEN -1
                                ELSE alerts.offline_count[device_name],
                                alerts.clock)
              sends == c.alerts # {}
              escapes == /\ sends
                         /\ send_exc # NoError
                         /\ ~IsDiscordInstance(send_exc, "discord.HTTPException")
              log == [update.log EXCEPT
                         !.discord_ok = @ /\ (sends => send_exc = NoError),
                         !.delivered = IF sends /\ send_exc = NoError
                                       THEN @ \cup c.alerts ELSE @]
          IN /\ alerts' = [alerts EXCEPT
                              !.alert_cooldowns = c.alert_cooldowns,
                              !.offline_count[device_name] = c.offline_count,
                              !.fails[device_name] =
                                  IF "error" \in DOMAIN status
                                  THEN (IF @ < OFFLINE_ALERT_THRESHOLD
                                        THEN @ + 1 ELSE @)
                                  ELSE 0,
                              !.produced = [k \in DOMAIN @ \cup c.alerts |->
                                               IF k \in c.alerts THEN alerts.clock
                                               ELSE @[k]]]
             /\ update' = IF escapes THEN EndRun(log)
                          ELSE [update EXCEPT !.todo = Tail(@), !.log = log]
    /\ UpdateFrame

\* lines 262-270: the record is announced when new_record_device and
\* new_record_value are both truthy; the run is over
UpdateNotify ==
    /\ update.pc = "alerts"
    /\ update.todo = <<>>
    /\ \E send_exc \in SendOutcomes :
          LET sends == update.new_record_device /\ update.new_record_value # <<>>
          IN update' = EndRun([update.log EXCEPT
                                  !.discord_ok = @ /\ (sends => send_exc = NoError),
                                  !.notified = sends /\ send_exc = NoError])
    /\ UNCHANGED alerts
    /\ UpdateFrame

\* the loop sleeps until its next run
UpdateTick ==
    /\ update.pc = "done"
    /\ alerts.clock + UPDATE_INTERVAL <= MaxClock
    /\ alerts' = [alerts EXCEPT !.clock = @ + UPDATE_INTERVAL]
    /\ update' = [update EXCEPT !.pc = "idle", !.log = NoLog]
    /\ UpdateFrame

\* somebody deletes the status message in the channel
DeleteMessage ==
    /\ update.last_message # 0
    /\ ~update.deleted
    /\ update.sent < MaxMessages
    /\ update' = [update EXCEPT !.deleted = TRUE]
    /\ UNCHANGED alerts
    /\ UpdateFrame

(***************************************************************************)
(* The event handlers of main.py (lines 94-151) and the life of the        *)
(* update_status loop (lines 207, 280-289).  The gateway decides when the  *)
(* bot connects, loses the connection, resumes the session or gets a new   *)
(* one; on_ready is dispatched at every new session.                       *)
(***************************************************************************)
\* update_status.is_running(): the loop has a task that is not done
is_running(task) == task # "none"

\* update_status.start(): a new task that first runs before_loop;
\* RuntimeError when the loop is already running
Loop_start(task) ==
    IF is_running(task) THEN [task |-> task, raised |-> "RuntimeError"]
    ELSE [task |-> "created", raised |-> "none"]

\* an on_ready that starts the loop without asking
on_ready_starts_always(task) == TRUE

\* if not update_status.is_running(): (line 129)
on_ready_starts(task) == ~is_running(task)

BotFrame ==
    /\ UNCHANGED <<now, STATUS_CACHE, calls>>
    /\ UNCHANGED store_state
    /\ UNCHANGED cycle_vars
    /\ UNCHANGED fetch_vars
    /\ UNCHANGED applied_vars
    /\ UNCHANGED <<gather, alerts, update>>

\* a session begins: the client is ready and on_ready runs up to its first
\* await (lines 101-110)
OnReady ==
    /\ ~bot.connected
    /\ bot.handlers < MaxHandlers
    /\ bot' = [bot EXCEPT !.connected = TRUE, !.ready = TRUE, !.handlers = @ + 1]
    /\ BotFrame

\* an on_ready goes on after change_presence, which has set the presence
\* or raised (lines 110-131); nothing is awaited between is_running() and
\* start()
OnReadyStart ==
    /\ bot.handlers > 0
    /\ \E presence_set \in BOOLEAN :
       LET started == IF on_ready_starts(bot.task) THEN Loop_start(bot.task)
                      ELSE [task |-> bot.task, raised |-> "none"]
       IN bot' = [bot EXCEPT
                     !.handlers = @ - 1,
                     !.presence = IF presence_set THEN "watching" ELSE @,
                     !.task = started.task,
                     !.starts = IF on_ready_starts(bot.task) THEN @ + 1 ELSE @,
                     !.skipped = @ \/ ~on_ready_starts(bot.task)]
    /\ BotFrame

\* the connection is lost; on_disconnect logs it (lines 134-141)
OnDisconnect ==
    /\ bot.connected
    /\ bot' = [bot EXCEPT !.connected = FALSE]
    /\ BotFrame

\* the session is resumed; on_resumed logs it (lines 144-151)
OnResumed ==
    /\ ~bot.connected
    /\ bot.ready
    /\ bot' = [bot EXCEPT !.connected = TRUE]
    /\ BotFrame

\* the new task runs before_update_status up to bot.wait_until_ready()
\* (lines 280-288)
LoopBefore ==
    /\ bot.task = "created"
    /\ bot' = [bot EXCEPT !.task = "before_loop"]
    /\ BotFrame

\* bot.wait_until_ready() returns and the first run begins (lines 288-289)
LoopFirst ==
    /\ bot.task = "before_loop"
    /\ bot.ready
    /\ bot' = [bot EXCEPT !.task = "cycle", !.cycles = @ + 1]
    /\ BotFrame

\* a run of update_status is over and the loop sleeps
LoopSleep ==
    /\ bot.task = "cycle"
    /\ bot' = [bot EXCEPT !.task = "sleep"]
    /\ BotFrame

\* the interval is over and the next run begins
LoopWake ==
    /\ bot.task = "sleep"
    /\ bot.cycles < MaxCycles
    /\ bot' = [bot EXCEPT !.task = "cycle", !.cycles = @ + 1]
    /\ BotFrame

vars == <<best_diff_history, best_diff_file, now, last, written, io_fault,
          STATUS_CACHE, calls, cycle, fetch, applied, gather, alerts, bot,
          update>>

\* One call with its tasks.  The event loop runs every task that can run
\* and the clock goes on, so no step that stays possible is put off for ever.
GatherNext ==
    \/ GatherStart
    \/ \E i \in 1..NumTasks : TaskStart(i)
    \/ \E i \in 1..NumTasks : TaskAnswer(i)
    \/ \E i \in 1..NumTasks : TaskTimeout(i)
    \/ GatherTick
    \/ GatherReturn
    \/ GatherForget

GatherFairness ==
    /\ \A i \in 1..NumTasks : WF_vars(TaskStart(i))
    /\ \A i \in 1..NumTasks : WF_vars(TaskAnswer(i))
    /\ \A i \in 1..NumTasks : WF_vars(TaskTimeout(i))
    /\ WF_vars(GatherTick)
    /\ WF_vars(GatherReturn)

SpecGather == CacheInit /\ [][GatherNext]_vars /\ GatherFairness

\* The store on its own: the cache is not used
StoreNext == CheckAndUpdate \/ LoadBestDiff \/ Restart \/ Tick

SpecStore == StoreInit /\ [][StoreNext]_vars

\* The cache on its own: the store is not used
CacheNext ==
    \/ \E c \in Calls : Start(c)
    \/ \E c \in Calls : Finish(c)
    \/ \E c \in Calls : Forget(c)
    \/ CacheTick

SpecCache == CacheInit /\ [][CacheNext]_vars

\* The cycle: call 1 belongs to format_status_embeds, call 2 to the other
\* call site, and the two may overlap
CycleNext ==
    \/ Start(CycleCall)
    \/ Finish(CycleCall)
    \/ CycleLoad
    \/ CycleEvaluate
    \/ CycleEnd
    \/ Start(OtherCall)
    \/ Finish(OtherCall)
    \/ Forget(OtherCall)
    \/ CacheTick

SpecCycle == CacheInit /\ [][CycleNext]_vars

\* One call of fetch_status after another
FetchNext == FetchCall \/ FetchWait \/ FetchGet \/ FetchJson \/ FetchReturn

SpecFetch == CacheInit /\ [][FetchNext]_vars

\* Calls of unify_status and get_value
NormalizeNext == ApplyUnifyStatus \/ ApplyGetValue \/ ApplyReturn

SpecNormalize == CacheInit /\ [][NormalizeNext]_vars

\* The parser and the comparison on their own
ParseNext == ApplyParse \/ ApplyCheck \/ ApplyReturn

SpecParse == CacheInit /\ [][ParseNext]_vars

\* The configuration look-ups on their own
ConfigNext == ApplyConfigGet \/ ApplyConfigGetInt \/ ApplyReturn

SpecConfig == CacheInit /\ [][ConfigNext]_vars

\* The runs of update_status, one after the other, while the devices are
\* well and somebody may delete the status message
UpdateNext ==
    \/ UpdateBegin(CalmStatuses)
    \/ UpdateMessage
    \/ UpdateAlert
    \/ UpdateNotify
    \/ UpdateTick
    \/ DeleteMessage

SpecUpdate == CacheInit /\ [][UpdateNext]_vars

\* The runs of update_status, one after the other, while devices fail and
\* overheat
AlertsNext ==
    \/ UpdateBegin(RunStatuses)
    \/ UpdateMessage
    \/ UpdateAlert
    \/ UpdateNotify
    \/ UpdateTick

SpecAlerts == CacheInit /\ [][AlertsNext]_vars

\* The gateway events and the loop
BotNext ==
    \/ OnReady
    \/ OnReadyStart
    \/ OnDisconnect
    \/ OnResumed
    \/ LoopBefore
    \/ LoopFirst
    \/ LoopSleep
    \/ LoopWake

SpecBot == CacheInit /\ [][BotNext]_vars

(***************************************************************************)
(* Properties of the store.                                                *)
(***************************************************************************)
\* The magnitude of the record in memory and of the record in the file
MemValue == record_value(best_diff_history.d)

FileValue == record_value(file_record(best_diff_file))

\* A step that is one check_and_update_best_diff call
CheckStep == last'.op = "check" /\ now' = now

S_2_100_000_M == <<"2", ",", "1", "0", "0", ",", "0", "0", "0", " ", "(", "M", ")">>

\* C1: over any sequence of check_and_update_best_diff calls the value of the
\* best record, in memory and in the file, never becomes smaller (stated for
\* the calls of runs without any I/O error).
C1_ValueNeverDecreases ==
    [][(CheckStep /\ ~io_fault')
        => (MemValue' >= MemValue /\ FileValue' >= FileValue)]_vars

\* C2: two check_and_update_best_diff calls in a row with the same difficulty
\* string for the same device report a new record at most once.
C2_RepeatedInputReportsOnce ==
    [][(CheckStep /\ last.op = "check" /\ last'.status = last.status /\ ~io_fault')
        => ~(last.new_record /\ last'.new_record)]_vars

\* C3: when the parsed magnitude is strictly greater than the magnitude of the
\* stored record, the call returns (True, formatted value), the record in
\* memory and the record in the file are the new one, and load_best_diff
\* then returns a record with the new magnitude.
C3_GreaterReplacesAndPersists ==
    (last.op = "check" /\ last.numeric.kind = "int" /\ ~io_fault
        /\ last.numeric.val > last.observed)
    => /\ last.new_record
       /\ last.new_record_value = [str |-> FormattedDiff[last.status.bestDiff]]
       /\ FileValue = last.numeric.val
       /\ MemValue = last.numeric.val
       /\ record_value(load_best_diff(best_diff_history, best_diff_file, FALSE).d)
            = last.numeric.val

\* C4: when the parsed magnitude is not strictly greater than the magnitude of
\* the stored record, "no record yet" counting as 0, the call returns
\* (False, None) and does not call save_best_diff.
C4_NotGreaterIsNoOp ==
    (last.op = "check" /\ last.numeric.kind = "int"
        /\ last.numeric.val <= last.observed)
    => /\ last.raised = "none"
       /\ ~last.new_record
       /\ last.new_record_value = None
       /\ ~last.saved

\* C5: a report of 2.1M by device bitaxe that exceeds the stored record is a
\* new record formatted "2,100,000 (M)", and once a record of 1,500,000 or
\* more has been written, a report of 900K by device nerdaxe is never a new
\* record and never written.
C5_EndToEnd ==
    /\ (last.op = "check" /\ last.status = [bestDiff |-> D_2_1M, hostname |-> "bitaxe"]
            /\ last.observed < 2100000)
       => (last.new_record /\ last.new_record_value = [str |-> S_2_100_000_M])
    /\ (last.op = "check" /\ last.status = [bestDiff |-> D_900K, hostname |-> "nerdaxe"]
            /\ written.max >= 1500000 /\ ~io_fault)
       => (~last.new_record /\ ~last.saved)

\* C6: a load_best_diff that reads the file into an empty memory (the first
\* load after a restart) yields exactly the last-written record, and that
\* record is the best record: no record written before had a larger value.
C6_RestartRoundTrip ==
    (last.op = "load" /\ last.did_read /\ ~io_fault)
    => /\ best_diff_history = PyDict(written.rec)
       /\ record_value(written.rec) = written.max

\* The round-trip half of C6 on its own
RoundTripOnly ==
    (last.op = "load" /\ last.did_read /\ ~io_fault)
    => best_diff_history = PyDict(written.rec)

\* C7: no two updates (of two devices, one next to the other) both observe the
\* same old maximum and both report a new record with the larger candidate
\* overwritten by the smaller one.
C7_NoLostUpdate ==
    [][(CheckStep /\ last.op = "check" /\ ~io_fault'
          /\ last'.status.hostname # last.status.hostname
          /\ last.new_record /\ last'.new_record
          /\ last'.observed = last.observed)
        => last'.numeric.val >= last.numeric.val]_vars

\* C8: a difficulty string that does not parse to a magnitude makes the call
\* a no-op: it returns (False, None), raises nothing and writes nothing.
C8_ParseFailureIsNoOp ==
    (last.op = "check" /\ last.numeric.kind # "int")
    => /\ last.raised = "none"
       /\ ~last.new_record
       /\ last.new_record_value = None
       /\ ~last.saved

\* C9: when the write of a new record fails, no exception escapes and the new
\* record is the record in memory.
C9_WriteFailureKeepsMemory ==
    (last.op = "check" /\ last.saved /\ last.outcome # "ok")
    => /\ last.raised = "none"
       /\ MemValue = last.numeric.val


(***************************************************************************)
(* Properties of the status cache.                                         *)
(***************************************************************************)
\* The call c began when the entry of h existed and was younger than the TTL
Young(c, h) ==
    /\ calls[c].pc # "idle"
    /\ h \in DOMAIN calls[c].seen

\* C10: for every device whose cache entry exists and is younger than the
\* TTL of 5 seconds when get_all_device_statuses is called, the call issues no
\* fetch for the device, does not write its entry (while the call is suspended
\* the entry is the one it saw, unless an overlapping call refreshed it), and
\* returns the cached status; a call made while every device is that young
\* issues no fetch at all and returns at once.
C10_FreshServedFromCache ==
    \A c \in Calls :
        /\ \A h \in DeviceNames :
              Young(c, h) =>
                /\ h \notin SeqToSet(calls[c].hostnames)
                /\ h \notin calls[c].wrote
                /\ (calls[c].pc = "gather" /\ h \notin calls[c].disturbed)
                      => (h \in DOMAIN STATUS_CACHE /\ STATUS_CACHE[h] = calls[c].seen[h])
                /\ (calls[c].pc = "returned" /\ h \notin calls[c].disturbed)
                      => (h \in DOMAIN calls[c].ret
                          /\ calls[c].ret[h] = calls[c].seen[h].data)
        /\ (\A i \in 1..Len(Devices) : Devices[i].ip # "" => Young(c, Devices[i].name))
              => (calls[c].hostnames = <<>> /\ calls[c].pc = "returned")

\* C10 happens: a call that began later than an entry was written, within
\* the TTL, has returned that entry's status without a fetch
C10_Witness ==
    \E c \in Calls :
        /\ calls[c].pc = "returned"
        /\ Young(c, "bitaxe") /\ Young(c, "nerdaxe")
        /\ now > calls[c].seen["bitaxe"].timestamp
        /\ calls[c].hostnames = <<>>
        /\ calls[c].ret["bitaxe"] = calls[c].seen["bitaxe"].data

\* a call is suspended fetching one device while the other was young
C10_MixedReached ==
    \E c \in Calls :
        /\ calls[c].pc = "gather"
        /\ Young(c, "nerdaxe")
        /\ calls[c].hostnames = <<"bitaxe">>

\* Number of fetches the call c issued for the device h: the fetch_status
\* tasks of line 77 correspond one to one to the entries of hostnames
Fetches(c, h) ==
    Cardinality({i \in 1..Len(calls[c].hostnames) : calls[c].hostnames[i] = h})

HasIp(h) == \E i \in 1..Len(Devices) : Devices[i].name = h /\ Devices[i].ip # ""

\* C11 as stated: a call issues exactly one fetch for every configured device
\* that had no cache entry younger than the TTL when the call began.
C11_StaleFetchedOnce_AnyDevice ==
    \A c \in Calls : \A h \in DeviceNames :
        (calls[c].pc # "idle" /\ h \notin DOMAIN calls[c].seen)
        => Fetches(c, h) = 1

\* C11 amended: a call issues exactly one fetch for every configured device
\* with an ip that had no cache entry younger than the TTL when the call
\* began (its entry had aged to the TTL or beyond, or it had none).
C11_StaleFetchedOnce ==
    \A c \in Calls : \A h \in DeviceNames :
        (calls[c].pc # "idle" /\ HasIp(h) /\ h \notin DOMAIN calls[c].seen)
        => Fetches(c, h) = 1

\* C11 happens: a call is suspended with one fetch for a device whose entry
\* has aged to the TTL
C11_Witness ==
    \E c \in Calls :
        /\ calls[c].pc = "gather"
        /\ "bitaxe" \in DOMAIN STATUS_CACHE
        /\ now - STATUS_CACHE["bitaxe"].timestamp >= CACHE_TTL
        /\ "bitaxe" \notin DOMAIN calls[c].seen
        /\ Fetches(c, "bitaxe") = 1

\* C12: a call that had a fetch fail still returns, and the returned map holds
\* an entry for every configured device with an ip: the error result for a
\* device whose fetch failed, the unified fresh status for a device whose
\* fetch succeeded, and the cached status for a device that was not fetched.
C12_FetchFailureDoesNotFailCall ==
    \A c \in Calls :
        calls[c].pc = "returned" =>
            /\ \A h \in DeviceNames : HasIp(h) => h \in DOMAIN calls[c].ret
            /\ \A i \in 1..Len(calls[c].hostnames) :
                  LET h == calls[c].hostnames[i]
                      r == calls[c].results[i]
                  IN IF "error" \in DOMAIN r
                     THEN calls[c].ret[h] = r
                     ELSE /\ "error" \notin DOMAIN calls[c].ret[h]
                          /\ calls[c].ret[h].temp = r.temp
            /\ \A h \in DOMAIN calls[c].seen :
                  h \notin calls[c].disturbed => calls[c].ret[h] = calls[c].seen[h].data

\* C12 happens: a call has returned after the fetch of one device failed,
\* with the error result for that device and the cached status of the other
C12_Witness ==
    \E c \in Calls :
        /\ calls[c].pc = "returned"
        /\ calls[c].hostnames = <<"bitaxe">>
        /\ calls[c].results = <<ErrTimeout>>
        /\ calls[c].ret["bitaxe"] = ErrTimeout
        /\ "nerdaxe" \in DOMAIN calls[c].seen
        /\ "error" \notin DOMAIN calls[c].ret["nerdaxe"]

\* The step in which the call c resumes from asyncio.gather and returns
FinishStep(c) == calls[c].pc = "gather" /\ calls'[c].pc = "returned"

\* The step in which the call c begins
StartStep(c) == calls[c].pc = "idle" /\ calls'[c].pc # "idle"

\* C13: when a call returns from its fetches, the entry of every device it
\* fetched holds the result of the fetch (status or error) and a timestamp
\* taken during that step, the returned map is the cache content for the
\* configured devices, and a call that begins while an entry holding an error
\* is younger than the TTL does not fetch that device.
C13_ResultsWrittenBeforeReturn ==
    [][\A c \in Calls :
          /\ FinishStep(c) =>
                /\ \A i \in 1..Len(calls[c].hostnames) :
                      LET h == calls[c].hostnames[i]
                      IN /\ h \in DOMAIN STATUS_CACHE'
                         /\ STATUS_CACHE'[h].data
                              = unify_status(calls'[c].results[i], h)
                         /\ STATUS_CACHE'[h].timestamp >= now
                         /\ STATUS_CACHE'[h].timestamp <= now'
                /\ DOMAIN calls'[c].ret = DeviceNames \cap DOMAIN STATUS_CACHE'
                /\ \A h \in DOMAIN calls'[c].ret :
                      calls'[c].ret[h] = STATUS_CACHE'[h].data
          /\ StartStep(c) =>
                \A h \in DOMAIN STATUS_CACHE :
                    ("error" \in DOMAIN STATUS_CACHE[h].data
                        /\ now - STATUS_CACHE[h].timestamp < 5)
                    => Fetches(c, h)' = 0
      ]_vars

\* C13 happens: an error result was written at time 5, and a call begun
\* within the TTL after it has returned the error without a fetch
C13_Witness ==
    \E c \in Calls :
        /\ calls[c].pc = "returned"
        /\ calls[c].hostnames = <<>>
        /\ "bitaxe" \in DOMAIN calls[c].seen
        /\ calls[c].seen["bitaxe"] = [data |-> ErrTimeout, timestamp |-> CACHE_TTL]
        /\ calls[c].ret["bitaxe"] = ErrTimeout

\* C14: in every step, for every device key, the entry stays in the cache and
\* its timestamp does not decrease, whichever of the overlapping calls writes.
C14_TimestampNonDecreasing ==
    [][\A h \in DOMAIN STATUS_CACHE :
          /\ h \in DOMAIN STATUS_CACHE'
          /\ STATUS_CACHE'[h].timestamp >= STATUS_CACHE[h].timestamp]_vars

\* C14 happens: a call wrote an entry that an overlapping call had written
\* while the first was suspended, and the entry carries a later timestamp
C14_Witness ==
    \E c \in Calls :
        /\ calls[c].pc = "returned"
        /\ "bitaxe" \in calls[c].disturbed
        /\ "bitaxe" \in calls[c].wrote
        /\ STATUS_CACHE["bitaxe"].timestamp > 0

\* C15: while the loop of format_status_embeds evaluates the best record, the
\* call that fetched the statuses has returned with every fetched device
\* written to the cache, and every status handed to
\* check_and_update_best_diff is the one of the map that call returned,
\* whatever has been written to the cache since.
C15_EvaluationOnOneSnapshot ==
    cycle.pc = "loop" =>
        /\ calls[CycleCall].pc = "returned"
        /\ calls[CycleCall].wrote = SeqToSet(calls[CycleCall].hostnames)
        /\ cycle.data = calls[CycleCall].ret
        /\ \A i \in 1..Len(cycle.evaluated) :
              cycle.evaluated[i].status
                = calls[CycleCall].ret[cycle.evaluated[i].hostname]

\* C15 happens: the loop has evaluated the status of a device whose cache
\* entry was overwritten with an error after the map was returned
C15_Witness ==
    /\ cycle.pc = "loop"
    /\ Len(cycle.evaluated) = 2
    /\ cycle.evaluated[1].new_record
    /\ STATUS_CACHE["bitaxe"].data = ErrTimeout
    /\ STATUS_CACHE["nerdaxe"].data = ErrTimeout

\* C16: a call of fetch_status makes one request and no more, and when it
\* ends after a failure (a timeout, a client error or any other exception) it
\* has returned a dict with the key "error" and raised nothing.
C16_FailuresReturnedNotRaised ==
    /\ fetch.attempts <= 1
    /\ fetch.pc # "idle" => fetch.attempts = 1
    /\ fetch.pc = "done" =>
          /\ fetch.raised = NoException
          /\ fetch.failure # NoException =>
                (fetch.result # None /\ "error" \in DOMAIN fetch.result)

\* C16 happens: a call has ended after an exception that is neither a timeout
\* nor a client error, and returned its message as the error
C16_Witness ==
    /\ fetch.pc = "done"
    /\ fetch.failure = JSONDecodeError
    /\ fetch.result = [error |-> JStr("Expecting value")]
    /\ fetch.attempts = 1

(***************************************************************************)
(* unify_status and get_value                                              *)
(***************************************************************************)
\* The keys of the dict unify_status builds (the fields the model keeps)
CanonicalFields ==
    {"hostname", "ip", "temp", "bestDiff", "sharesRejectedReasons", "deviceModel",
     "isUsingFallbackStratum", "stratum_poolMode"}

\* C17: unify_status returns a payload that has the key "error" as it is
\* (same keys, same values, no canonical field added), and a payload
\* without that key is never returned as it is: it is replaced by the
\* canonical record.
C17_ErrorPassedThroughUnchanged ==
    applied.op = "unify_status" =>
        IF "error" \in DOMAIN applied.data
        THEN applied.result = applied.data
        ELSE /\ applied.result # applied.data
             /\ CanonicalFields \subseteq DOMAIN applied.result

\* an error payload with an empty error text and further keys came back as
\* it was
C17_Witness ==
    /\ applied.op = "unify_status"
    /\ DOMAIN applied.data = {"error", "temp", "hostname"}
    /\ applied.data["error"] = JStr("")
    /\ applied.result = applied.data
    /\ DOMAIN applied.result \cap CanonicalFields = {"temp", "hostname"}

\* C18: for every payload without the key "error", the empty object
\* included, unify_status returns a record whose key set is the fixed set
\* of canonical fields, each field holding a value.
C18_EveryCanonicalFieldPresent ==
    (applied.op = "unify_status" /\ "error" \notin DOMAIN applied.data) =>
        /\ DOMAIN applied.result = CanonicalFields
        /\ \A f \in CanonicalFields : applied.result[f] # JNone

\* the empty object was normalized into a complete record of defaults
C18_Witness ==
    /\ applied.op = "unify_status"
    /\ applied.data = EmptyDict
    /\ applied.hostname = "nerdaxe"
    /\ DOMAIN applied.result = CanonicalFields
    /\ applied.result["hostname"] = JStr("nerdaxe")
    /\ applied.result["temp"] = JNum(0)

\* One step of a path: the value under key k of a container, or nothing
Missing == [t |-> "missing", v |-> 0]

Step(value, k) ==
    IF value.t = "dict" /\ k \in DOMAIN value.v THEN value.v[k] ELSE Missing

\* The keys are a path: more than one key and the first maps to a container
IsPath(data, keys) ==
    /\ Len(keys) > 1
    /\ keys[1] \in DOMAIN data
    /\ data[keys[1]].t = "dict"

\* C19: an empty key list gives None; a list of more than one key whose
\* first key maps to a nested container is a path, descended key by key,
\* giving None when a step is missing or not a container; any other list is
\* alternatives, giving the value of the first key present at top level and
\* None when no key is present.
C19_PathOrAlternatives ==
    applied.op = "get_value" =>
        LET data == applied.data
            keys == applied.keys
            n == Len(keys)
            walk == [i \in 1..n |->
                        IF i = 1 THEN data[keys[1]]
                        ELSE IF i = 2 THEN Step(data[keys[1]], keys[2])
                        ELSE Step(Step(data[keys[1]], keys[2]), keys[3])]
        IN  IF n = 0 THEN applied.result = JNone
            ELSE IF IsPath(data, keys)
                 THEN applied.result = (IF walk[n] = Missing THEN JNone ELSE walk[n])
                 ELSE \/ /\ \A i \in 1..n : keys[i] \notin DOMAIN data
                         /\ applied.result = JNone
                      \/ \E i \in 1..n :
                            /\ keys[i] \in DOMAIN data
                            /\ \A j \in 1..(i - 1) : keys[j] \notin DOMAIN data
                            /\ applied.result = data[keys[i]]

\* a path was descended into the nested container
C19_Witness ==
    /\ applied.op = "get_value"
    /\ applied.keys = <<"stratum", "poolMode">>
    /\ "stratum" \in DOMAIN applied.data
    /\ applied.data["stratum"] = JDict([poolMode |-> JStr("solo")])
    /\ applied.result = JStr("solo")

\* a list whose first key is absent was read as alternatives, although a
\* later key maps to a container
C19_AlternativesReached ==
    /\ applied.op = "get_value"
    /\ applied.keys = <<"voltage", "stratum">>
    /\ "stratum" \in DOMAIN applied.data
    /\ applied.result = JDict([poolMode |-> JStr("solo")])

\* a path broke off at a missing step
C19_BrokenPathReached ==
    /\ applied.op = "get_value"
    /\ applied.keys = <<"stratum", "poolMode", "x">>
    /\ "stratum" \in DOMAIN applied.data
    /\ applied.data["stratum"] = JDict([poolMode |-> JStr("solo")])
    /\ applied.result = JNone

\* a list under the first key is not a nested dict: the keys were read as
\* alternatives
C19_ListReached ==
    /\ applied.op = "get_value"
    /\ applied.keys = <<"stratum", "poolMode">>
    /\ "stratum" \in DOMAIN applied.data
    /\ applied.data["stratum"].t = "list"
    /\ applied.result = applied.data["stratum"]

\* The default of a field read from one top-level key (lines 150, 175, 181)
FieldDefault(key, hostname) ==
    CASE key = "hostname" -> JStr(hostname)
      [] key = "temp" -> JNum(0)
      [] key = "bestDiff" -> JStr(D_dash)

\* C20: a canonical field holds the value the payload has under its
\* candidate key whenever that key is present, and holds its default
\* exactly when the key is absent.
C20_DefaultExactlyWhenUnresolved ==
    (applied.op = "unify_status" /\ "error" \notin DOMAIN applied.data) =>
        \A key \in {"hostname", "temp", "bestDiff"} :
            IF key \in DOMAIN applied.data
            THEN applied.result[key] = applied.data[key]
            ELSE applied.result[key] = FieldDefault(key, applied.hostname)

(***************************************************************************)
(* Overlapping calls and hung devices.                                     *)
(***************************************************************************)
\* The device h is being fetched by the call d
InFlight(d, h) == calls[d].pc = "gather" /\ h \in SeqToSet(calls[d].hostnames)

\* C21: a call never issues more than one fetch for a device, and a call
\* that begins while another call has a fetch in flight for a device whose
\* entry is still stale issues its own fetch for that device: the fetch in
\* flight is not shared.
C21_NoSingleFlight ==
    [][\A c \in Calls :
          /\ \A h \in DeviceNames : Fetches(c, h)' <= 1
          /\ StartStep(c) =>
                \A h \in DeviceNames :
                    (/\ \E d \in Calls \ {c} : InFlight(d, h)
                     /\ ~(h \in DOMAIN STATUS_CACHE
                          /\ now - STATUS_CACHE[h].timestamp < 5))
                    => (calls'[c].pc = "gather" /\ Fetches(c, h)' = 1)
      ]_vars

\* C21 happens: two calls each have a fetch in flight for the same device
C21_Witness ==
    \E c, d \in Calls :
        /\ c # d
        /\ InFlight(c, "bitaxe")
        /\ InFlight(d, "bitaxe")

\* The task i of the running call
Task(i) == gather.tasks[i]

Pending(i) == gather.pc = "gather" /\ i \in 1..Len(gather.tasks) /\ Task(i).pc = "get"

\* C22: no request waits longer than its own time limit, every task of a
\* call is started before any of them has waited, and every call that is
\* waiting in asyncio.gather returns, whichever devices hang.
C22_HungDeviceStallsNothing ==
    /\ [](\A i \in 1..NumTasks : Pending(i) => Task(i).elapsed <= FETCH_TIMEOUT)
    /\ [](\A i, j \in 1..NumTasks :
            (Pending(i) /\ Task(i).elapsed > 0) => Task(j).pc # "created")
    /\ (gather.pc = "gather") ~> (gather.pc = "returned")

\* C22 happens: a device has answered while the request to a hung device is
\* still waiting
C22_Witness ==
    /\ gather.pc = "gather"
    /\ Task(1).hung /\ Pending(1) /\ Task(1).elapsed = 2
    /\ ~Task(2).hung /\ Task(2).pc = "done" /\ Task(2).result = PayloadOk

\* a call has returned with the timeout error of the hung device and the
\* status of the other
C22_ReturnedReached ==
    /\ gather.pc = "returned"
    /\ Task(1).hung /\ Task(1).result = ErrTimeout
    /\ Task(2).result = PayloadOk

(***************************************************************************)
(* load_best_diff, the parsing of difficulty strings, Config.              *)
(***************************************************************************)
\* A step that is one load_best_diff() call of its own
LoadStep == last'.op = "load" /\ now' = now

\* No call has been made since the process started
FirstCall == last.op \in {"none", "restart"}

C23_RereadReached ==
    /\ last.op = "load"
    /\ last.did_read
    /\ MemValue = 1500000
    /\ written.max = 1500000

(***************************************************************************)
(* Properties of the suffix parser.                                        *)
(***************************************************************************)
\* the power of ten a suffix letter stands for, 0 without a suffix
SuffixExp(s) ==
    IF s = <<>> THEN 0
    ELSE CASE s[Len(s)] \in {"K", "k"} -> 3
           [] s[Len(s)] \in {"M", "m"} -> 6
           [] s[Len(s)] \in {"G", "g"} -> 9
           [] OTHER -> 0

\* the text in front of the suffix
NumberPart(s) == IF SuffixExp(s) = 0 THEN s ELSE SubSeq(s, 1, Len(s) - 1)

\* digits[.digits] followed by at most one of K, M, G in either case
IsSuffixedDecimal(s) == ParseMantissa(NumberPart(s)).kind = "mant"

\* the number times ten to the suffix power is a whole number
WholeProduct(s) ==
    LET m == ParseMantissa(NumberPart(s))
    IN \/ SuffixExp(s) >= m.frac
       \/ m.digits % Pow10(m.frac - SuffixExp(s)) = 0

\* the whole part of the number times ten to the suffix power
ProductFloor(s) ==
    LET m == ParseMantissa(NumberPart(s))
    IN IF SuffixExp(s) >= m.frac THEN m.digits * Pow10(SuffixExp(s) - m.frac)
       ELSE m.digits \div Pow10(m.frac - SuffixExp(s))

\* C24 as stated: a decimal number with an optional K, M or G suffix in
\* either case parses to exactly the number times 10^3, 10^6 or 10^9 (the
\* literal value without a suffix), and a value is a new record exactly
\* when that product is greater than the stored value, whatever the suffix
\* or the host name of either.
C24_ParsesToExactProduct ==
    /\ (applied.op = "parse_best_diff" /\ IsSuffixedDecimal(applied.best_diff))
          => /\ applied.result.kind = "int"
             /\ WholeProduct(applied.best_diff)
             /\ applied.result.val = ProductFloor(applied.best_diff)
    /\ (applied.op = "check_and_update_best_diff"
         /\ IsSuffixedDecimal(applied.status.bestDiff))
          => (applied.result.new_record
                <=> \/ Falsy(applied.current_best)
                    \/ ProductFloor(applied.status.bestDiff)
                          > applied.current_best.d.value
                    \/ /\ ProductFloor(applied.status.bestDiff)
                             = applied.current_best.d.value
                       /\ ~WholeProduct(applied.status.bestDiff))

\* C24 (amended): a decimal number with an optional K, M or G suffix in
\* either case parses to the whole part of the number times 10^3, 10^6 or
\* 10^9 (of the literal value without a suffix), a fraction of the product
\* being dropped, and a value is a new record exactly when nothing is stored
\* or that whole number is greater than the stored value, whatever the
\* suffix or the host name of either.
C24_ParsesToWholePartOfProduct ==
    /\ (applied.op = "parse_best_diff" /\ IsSuffixedDecimal(applied.best_diff))
          => /\ applied.result.kind = "int"
             /\ applied.result.val = ProductFloor(applied.best_diff)
    /\ (applied.op = "check_and_update_best_diff"
         /\ IsSuffixedDecimal(applied.status.bestDiff))
          => (applied.result.new_record
                <=> \/ Falsy(applied.current_best)
                    \/ ProductFloor(applied.status.bestDiff)
                          > applied.current_best.d.value)

\* "1.5m" from one host beats a record of 500,000 saved as "0.5M" by the other
C24_Witness ==
    /\ applied.op = "check_and_update_best_diff"
    /\ applied.status = [bestDiff |-> D_1_5m, hostname |-> "bitaxe"]
    /\ applied.current_best = PyDict(best_record(500000, D_0_5M, "nerdaxe", 0))
    /\ applied.result.new_record

\* "1.2345K" has parsed to 1234
C24_FractionDroppedReached ==
    /\ applied.op = "parse_best_diff"
    /\ applied.best_diff = D_1_2345K
    /\ applied.result = [kind |-> "int", val |-> 1234]

\* "2G" has parsed to 2,000,000,000
C24_GigaReached ==
    /\ applied.op = "parse_best_diff"
    /\ applied.best_diff = D_2G
    /\ applied.result = [kind |-> "int", val |-> 2000000000]

(***************************************************************************)
(* Properties of the configuration look-ups.                               *)
(***************************************************************************)
\* the variable the call names is in the environment
EnvSet == applied.env_var # "" /\ applied.env_var \in DOMAIN applied.environ

EnvText == applied.environ[applied.env_var]

FileHasKey == "key" \in DOMAIN applied.config

\* the text is an integer numeral: blanks, an optional sign, digits
IsIntegerText(text) ==
    \E i \in 1..Len(text), j \in 1..Len(text) :
       /\ i <= j
       /\ \A k \in 1..Len(text) : (k < i \/ k > j) => text[k] = " "
       /\ \/ \A k \in i..j : IsDigit(text[k])
          \/ /\ i < j
             /\ text[i] \in {"+", "-"}
             /\ \A k \in (i + 1)..j : IsDigit(text[k])

\* what the call returns when the environment variable does not decide
FromFileOrFallback ==
    IF applied.op = "get"
    THEN IF FileHasKey THEN JStr(applied.config["key"]) ELSE applied.fallback
    ELSE IF FileHasKey /\ IsIntegerText(applied.config["key"])
         THEN JNum(int_of_text(applied.config["key"]).val)
         ELSE applied.fallback

\* C25 as stated: get returns the value of the named environment variable
\* whenever it is set, getint whenever it is set to a valid integer;
\* otherwise both return the config file value, otherwise the fallback.
C25_EnvWinsWheneverSet ==
    /\ applied.op = "get"
         => applied.result = IF EnvSet THEN JStr(EnvText) ELSE FromFileOrFallback
    /\ applied.op = "getint"
         => applied.result = IF EnvSet /\ IsIntegerText(EnvText)
                             THEN JNum(int_of_text(EnvText).val)
                             ELSE FromFileOrFallback

\* C25 (amended): get returns the value of the named environment variable
\* whenever it is set to a non-empty value, getint whenever it is set to a
\* valid integer; otherwise both return the config file value, otherwise
\* the fallback.
C25_EnvWinsWhenNonEmpty ==
    /\ applied.op = "get"
         => applied.result = IF EnvSet /\ EnvText # <<>> THEN JStr(EnvText)
                             ELSE FromFileOrFallback
    /\ applied.op = "getint"
         => applied.result = IF EnvSet /\ IsIntegerText(EnvText)
                             THEN JNum(int_of_text(EnvText).val)
                             ELSE FromFileOrFallback

\* get has returned the environment's token although the file has one too
C25_Witness ==
    /\ applied.op = "get"
    /\ applied.env_var = "TEST_VAR"
    /\ applied.environ = [n \in {"TEST_VAR"} |-> T_env_token]
    /\ applied.config = [k \in {"key"} |-> T_file_token]
    /\ applied.result = JStr(T_env_token)

\* getint has passed over an invalid variable and returned the file's 7
C25_InvalidIntReached ==
    /\ applied.op = "getint"
    /\ applied.env_var = "TEST_VAR"
    /\ applied.environ = [n \in {"TEST_VAR"} |-> T_not_a_number]
    /\ applied.config = [k \in {"key"} |-> T_7]
    /\ applied.result = JNum(7)

\* get has passed over a variable set to the empty text
C25_EmptyVariableReached ==
    /\ applied.op = "get"
    /\ applied.env_var = "TEST_VAR"
    /\ applied.environ = [n \in {"TEST_VAR"} |-> T_empty]
    /\ applied.config = [k \in {"key"} |-> T_file_token]
    /\ applied.result = JStr(T_file_token)

(***************************************************************************)
(* Properties of update_status and check_and_send_alerts.                  *)
(***************************************************************************)
\* C26: a device whose fetch has failed on OFFLINE_ALERT_THRESHOLD
\* consecutive checks has got an offline alert, and until then the count
\* kept in its status is the number of consecutive failed checks.
C26_OfflineAlertAfterThreeFailures ==
    \A d \in PolledNames :
       /\ alerts.fails[d] >= OFFLINE_ALERT_THRESHOLD
            => <<d, "offline">> \in DOMAIN alerts.produced
       /\ (alerts.offline_count[d] # -1 /\ alerts.fails[d] < OFFLINE_ALERT_THRESHOLD)
            => alerts.offline_count[d] = alerts.fails[d]

\* a device has failed on three consecutive checks and nothing was alerted
C26_ThreeFailuresReached ==
    /\ alerts.fails["nerdaxe"] = OFFLINE_ALERT_THRESHOLD
    /\ alerts.offline_count["nerdaxe"] = 0
    /\ alerts.produced = EmptyDict

\* C27: a run in which check_and_update_best_diff reports a new record
\* updates the status message and announces the record, provided the
\* channel is there and every request to Discord succeeds; a run without a
\* new record announces nothing.
C27_RecordRunUpdatesAndNotifies ==
    (update.pc = "done" /\ update.log.discord_ok)
        => /\ update.log.reported
                => (update.log.did \in {"edit", "send"} /\ update.log.notified)
           /\ ~update.log.reported => ~update.log.notified

\* the first record ever: the run has sent the status message and announced it
C27_FirstRecordReached ==
    /\ update.pc = "done"
    /\ update.log.reported
    /\ update.log.did = "send"
    /\ update.log.notified

\* two alerts for the same device and kind are at least ALERT_COOLDOWN apart
C28_AlertsKeepCooldown ==
    [][\A k \in DOMAIN alerts.produced :
          alerts'.produced[k] # alerts.produced[k]
            => alerts'.produced[k] - alerts.produced[k] >= ALERT_COOLDOWN]_vars

\* C28: two alerts for the same device and kind are never less than
\* ALERT_COOLDOWN apart, and every reading that is critical and outside
\* its cooldown in a run is alerted in that run (provided the channel is
\* there and every request to Discord succeeds).
C28_CooldownAndCriticalAlert ==
    /\ C28_AlertsKeepCooldown
    /\ []((update.pc = "done" /\ update.log.discord_ok)
             => update.log.due \subseteq update.log.delivered)

\* in a run without a new record every alert that was due is delivered
C28_AlertedWhenRunNotAborted ==
    (update.pc = "done" /\ update.log.discord_ok /\ ~update.log.reported)
        => update.log.due = update.log.delivered

\* a second temperature alert, twenty minutes after the first
C28_SecondAlertReached ==
    /\ alerts.clock = 20
    /\ <<"bitaxe", "temp">> \in DOMAIN alerts.produced
    /\ alerts.produced[<<"bitaxe", "temp">>] = 20
    /\ <<"bitaxe", "temp">> \in update.log.delivered

\* a run has ended without the alert it owed although Discord did all it
\* was asked
C28_AlertSkippedReached ==
    /\ update.pc = "done"
    /\ update.log.discord_ok
    /\ update.log.due = {<<"bitaxe", "temp">>}
    /\ update.log.delivered = {}

\* what the step that handles the status message did
MessageStep == update.pc = "message" /\ update'.pc # "message"

\* C29: a new status message is sent only when there is no previous one or
\* the previous one is not found, and an existing one is edited in place;
\* last_message is always the status message sent last.
C29_SingleStatusMessage ==
    /\ [](update.last_message = update.sent)
    /\ [][/\ update'.sent # update.sent
              => /\ MessageStep
                 /\ update.last_message = 0 \/ update.deleted
                 /\ update'.sent = update.sent + 1
          /\ (MessageStep /\ update'.log.did = "edit")
              => /\ update.last_message # 0
                 /\ update'.last_message = update.last_message
          /\ (MessageStep /\ update.last_message # 0 /\ ~update.deleted)
              => update'.log.did \in {"edit", "wait", "none"}]_vars

\* the first message was deleted and a second one sent in its place
C29_Witness ==
    /\ update.sent = 2
    /\ update.last_message = 2
    /\ ~update.deleted
    /\ update.log.did = "send"

\* the previous message has been edited
C29_EditReached ==
    /\ update.last_message = 1
    /\ update.sent = 1
    /\ update.log.did = "edit"

(***************************************************************************)
(* Properties of the event handlers.                                       *)
(***************************************************************************)
\* C30: whatever on_ready, on_disconnect and on_resumed events occur, the
\* update_status loop is started at most once, so that at most one
\* instance of it runs, and no run of it begins before the bot is ready.
C30_LoopStartedOnce ==
    /\ bot.starts <= 1
    /\ is_running(bot.task) => bot.starts = 1
    /\ bot.cycles > 0 => bot.ready

\* a later on_ready has been handled while the loop was running, after a
\* disconnect, and the loop goes on
C30_Witness ==
    /\ bot.skipped
    /\ bot.starts = 1
    /\ bot.cycles = 2
    /\ bot.handlers = 0
    /\ bot.connected
    /\ bot.task = "sleep"

\* the loop has been started and waits in before_loop
C30_WaitingReached ==
    /\ bot.task = "before_loop"
    /\ bot.starts = 1
    /\ bot.cycles = 0

====
